---- MODULE Spec2Model ----
(***************************************************************************)
(* CloudForge orchestrator: workflow state (lib/state.js), phase           *)
(* transitions (lib/phases.js), rate-limit handling (lib/ratelimit.js)     *)
(* and the phase loop of main() (forge.js).                                *)
(***************************************************************************)
EXTENDS Integers, Sequences, FiniteSets, TLC

\* ------------------------------------------------------------------------
\* Values
\* ------------------------------------------------------------------------

\* JavaScript null / undefined where a phase name or transition target is expected
Null == "null"
Undefined == "undefined"


RECURSIVE Pow2(_)
Pow2(n) == IF n <= 0 THEN 1 ELSE 2 * Pow2(n - 1)

\* Array.prototype.indexOf on a sequence of strings, 0-based, -1 when absent
IndexOf(seq, x) ==
  IF \E i \in 1..Len(seq) : seq[i] = x
  THEN (CHOOSE i \in 1..Len(seq) : seq[i] = x /\ \A j \in 1..(i - 1) : seq[j] # x) - 1
  ELSE -1

Includes(seq, x) == \E i \in 1..Len(seq) : seq[i] = x

\* ------------------------------------------------------------------------
\* Workflow definition (prompts/workflow.dot as loaded by loadWorkflow)
\* ------------------------------------------------------------------------

T(done, retry, exhausted, next) ==
  [done |-> done, retry |-> retry, retry_exhausted |-> exhausted, done_next_subtask |-> next]

Phase(name, taskLoop, transitions) ==
  [name |-> name, taskLoop |-> taskLoop, transitions |-> transitions]

\* A line of workflow.dot once its comment is stripped and it is trimmed: a
\* transition "[*]from -> to [condition]", or text that TRANSITION_REGEX does
\* not match (blank, a comment alone, anything else)
TransitionLine(star, from, to, condition) ==
  [text |-> "transition", star |-> star, from |-> from, to |-> to, condition |-> condition]
OtherLine(text) == [text |-> text, star |-> FALSE, from |-> "", to |-> "", condition |-> ""]

SetTargetOnce(transitions, condition, target) ==
  IF transitions[condition] = Undefined
  THEN [transitions EXCEPT ![condition] = target] ELSE transitions

\* phase.transitions[condition] = target
SetTarget(transitions, condition, target) == [transitions EXCEPT ![condition] = target]

\* parseWorkflowFile: the loop over the lines, phases being the Map's values so far
RECURSIVE ParseLines(_, _)
ParseLines(lines, phases) ==
  IF lines = << >> THEN phases
  ELSE LET line == Head(lines) IN
       IF line.text # "transition" THEN ParseLines(Tail(lines), phases)
       ELSE LET target == IF line.to = "END" THEN Null ELSE line.to
                known == \E i \in 1..Len(phases) : phases[i].name = line.from
                withFrom == IF known THEN phases
                            ELSE Append(phases,
                                        Phase(line.from, FALSE,
                                              T(Undefined, Undefined, Undefined, Undefined)))
                k == CHOOSE i \in 1..Len(withFrom) : withFrom[i].name = line.from
            IN ParseLines(Tail(lines),
                          [withFrom EXCEPT
                             ![k].taskLoop = @ \/ line.star,
                             ![k].transitions = SetTarget(@, line.condition, target)])

parseWorkflowFile(lines) == ParseLines(lines, << >>)

\* The 18-phase workflow.  Targets exercised by the getNextPhase tests are
\* taken from them; an ordinary phase retries itself like DISCOVER does.
ProductionWorkflow == <<
  Phase("DISCOVER",     FALSE, T("REQUIREMENTS", "DISCOVER",     Undefined, Undefined)),
  Phase("REQUIREMENTS", FALSE, T("PRIORITIZE",   "REQUIREMENTS", Undefined, Undefined)),
  Phase("PRIORITIZE",   FALSE, T("GATE_SCOPE",   "PRIORITIZE",   Undefined, Undefined)),
  Phase("GATE_SCOPE",   FALSE, T("DOMAIN",       "REQUIREMENTS", "DOMAIN",  Undefined)),
  Phase("DOMAIN",       FALSE, T("DESIGN",       "DOMAIN",       Undefined, Undefined)),
  Phase("DESIGN",       FALSE, T("BDD",          "DESIGN",       Undefined, Undefined)),
  Phase("BDD",          FALSE, T("PLAN",         "BDD",          Undefined, Undefined)),
  Phase("PLAN",         FALSE, T("PROTOTYPE",    "PLAN",         Undefined, Undefined)),
  Phase("PROTOTYPE",    FALSE, T("GATE_DESIGN",  "PROTOTYPE",    Undefined, Undefined)),
  Phase("GATE_DESIGN",  FALSE, T("TEST",         "DESIGN",       "TEST",    Undefined)),
  Phase("TEST",         TRUE,  T("IMPLEMENT",    "TEST",         Undefined, Undefined)),
  Phase("IMPLEMENT",    TRUE,  T("VERIFY",       "IMPLEMENT",    Undefined, Undefined)),
  Phase("VERIFY",       TRUE,  T("REFACTOR",     "IMPLEMENT",    "REFACTOR", Undefined)),
  Phase("REFACTOR",     TRUE,  T("INTEGRATE",    "REFACTOR",     Undefined, "TEST")),
  Phase("INTEGRATE",    FALSE, T("GATE_QUALITY", "INTEGRATE",    Undefined, Undefined)),
  Phase("GATE_QUALITY", FALSE, T("REVIEW",       "INTEGRATE",    "REVIEW",  Undefined)),
  Phase("REVIEW",       FALSE, T("INNOVATE",     "REVIEW",       Undefined, Undefined)),
  Phase("INNOVATE",     FALSE, T(Null,           "DISCOVER",     Undefined, Undefined)) >>

\* The five-phase workflow A -> B -> *C -> D -> E -> END, done transitions only
HappyWorkflow == <<
  Phase("A", FALSE, T("B",  Undefined, Undefined, Undefined)),
  Phase("B", FALSE, T("C",  Undefined, Undefined, Undefined)),
  Phase("C", TRUE,  T("D",  Undefined, Undefined, Undefined)),
  Phase("D", FALSE, T("E",  Undefined, Undefined, Undefined)),
  Phase("E", FALSE, T(Null, Undefined, Undefined, Undefined)) >>

VARIABLE workflow   \* which workflow.dot the prompts directory holds

\* A workflow.dot of comments and text that is no transition: zero phases
EmptyWorkflow == parseWorkflowFile(<< OtherLine("comment"), OtherLine("junk") >>)

loadWorkflow ==
  CASE workflow = "happy" -> HappyWorkflow
    [] workflow = "empty" -> EmptyWorkflow
    [] OTHER -> ProductionWorkflow

\* getPhaseConfig: the entry of the workflow with that name, or Null
HasPhase(phaseName) == \E i \in 1..Len(loadWorkflow) : loadWorkflow[i].name = phaseName

getPhaseConfig(phaseName) ==
  loadWorkflow[CHOOSE i \in 1..Len(loadWorkflow) : loadWorkflow[i].name = phaseName]

getOrderedPhaseNames == [i \in 1..Len(loadWorkflow) |-> loadWorkflow[i].name]

getFirstPhase == IF Len(loadWorkflow) > 0 THEN loadWorkflow[1].name ELSE "DISCOVER"

isTaskLoopPhase(phase) == IF HasPhase(phase) THEN getPhaseConfig(phase).taskLoop ELSE FALSE

\* PHASE_NAMES.X: the name itself when the workflow defines it, else undefined
PHASE_NAMES(name) == IF HasPhase(name) THEN name ELSE Undefined

\* JavaScript truthiness / nullishness of a transition target
Truthy(target) == target # Null /\ target # Undefined
OrNull(target) == IF Truthy(target) THEN target ELSE Null

\* ------------------------------------------------------------------------
\* Status
\* ------------------------------------------------------------------------

NoStatus == [present |-> FALSE, result |-> "", summary |-> ""]
Status(result, summary) == [present |-> TRUE, result |-> result, summary |-> summary]

NoBlockSummary == "Agent completed without CLOUDFORGE_STATUS block"

synthesizeStatus(status, success, currentPhase) ==
  IF status.present THEN status
  ELSE IF ~success THEN Status("NEEDS_RETRY", "Agent crashed without reporting status")
  ELSE Status("NEEDS_RETRY", NoBlockSummary)

\* parseCloudForgeStatus on the child's output: null without the sentinel,
\* result upper-cased (the output alphabet is upper case) and DONE by default
parseCloudForgeStatus(output) ==
  IF ~output.hasBlock THEN NoStatus
  ELSE Status(IF output.result = "" THEN "DONE" ELSE output.result, output.summary)

ResultOrUnknown(status) ==
  IF status.present /\ status.result # "" THEN status.result ELSE "UNKNOWN"

\* status?.result || 'DONE'
ResultOrDone(status) ==
  IF status.present /\ status.result # "" THEN status.result ELSE "DONE"

GetNextPhaseLateExhaust(currentPhase, status, subTaskNumber, totalSubTasks, retryCount, maxRetries) ==
  LET result == ResultOrDone(status) IN
  IF ~HasPhase(currentPhase) THEN Null
  ELSE
    LET t == getPhaseConfig(currentPhase).transitions IN
    IF result = "DONE" \/ result = "BLOCKED" THEN
      IF Truthy(t.done_next_subtask) /\ subTaskNumber < totalSubTasks
      THEN t.done_next_subtask
      ELSE OrNull(t.done)
    ELSE IF result = "NEEDS_RETRY" THEN
      IF Truthy(t.retry_exhausted) /\ retryCount > maxRetries
      THEN t.retry_exhausted
      ELSE IF Truthy(t.done_next_subtask) THEN
        IF subTaskNumber < totalSubTasks THEN t.done_next_subtask ELSE OrNull(t.done)
      ELSE OrNull(t.retry)
    ELSE OrNull(t.retry)

getNextPhase(currentPhase, status, subTaskNumber, totalSubTasks, retryCount, maxRetries) ==
  LET result == ResultOrDone(status) IN
  IF ~HasPhase(currentPhase) THEN Null
  ELSE
    LET t == getPhaseConfig(currentPhase).transitions IN
    IF result = "DONE" \/ result = "BLOCKED" THEN
      IF Truthy(t.done_next_subtask) /\ subTaskNumber < totalSubTasks
      THEN t.done_next_subtask
      ELSE OrNull(t.done)
    ELSE IF result = "NEEDS_RETRY" THEN
      IF Truthy(t.retry_exhausted) /\ retryCount >= maxRetries
      THEN t.retry_exhausted
      ELSE IF Truthy(t.done_next_subtask) THEN
        IF subTaskNumber < totalSubTasks THEN t.done_next_subtask ELSE OrNull(t.done)
      ELSE OrNull(t.retry)
    ELSE OrNull(t.retry)

\* ------------------------------------------------------------------------
\* Workflow state (lib/state.js)
\* ------------------------------------------------------------------------

DefaultMaxIterations == 25
DefaultMaxPhaseRetries == 3
MaxLastErrors == 5
RetryThreshold == 3
ErrorThreshold == 3

\* options.x || d : 0 (and NaN, which parseInt gives for a non-number) is falsy
OrDefault(x, d) == IF x = 0 THEN d ELSE x

createInitialState(task, maxIterations, maxPhaseRetries, initialPhase) ==
  [ sessionId |-> Null,
    task |-> task,
    phase |-> IF Truthy(initialPhase) THEN initialPhase ELSE "DISCOVER",
    currentSubTask |-> 0,
    totalSubTasks |-> 0,
    iteration |-> 0,
    maxIterations |-> OrDefault(maxIterations, DefaultMaxIterations),
    maxPhaseRetries |-> OrDefault(maxPhaseRetries, DefaultMaxPhaseRetries),
    totalTokens |-> [input |-> 0, output |-> 0],
    history |-> << >>,
    completedPhases |-> << >>,
    consecutiveRetries |-> 0,
    lastErrors |-> << >> ]

\* The tokens argument of recordIteration: an object, or null
Tokens(input, output) == [given |-> TRUE, input |-> input, output |-> output]
NoTokens == [given |-> FALSE]

RecordUncounted(state, phase, status, tokens) ==
  [state EXCEPT
    !.history = Append(state.history,
       [iteration |-> state.iteration + 1, phase |-> phase,
        result |-> IF status.present /\ status.result # "" THEN status.result ELSE "UNKNOWN",
        summary |-> IF status.present THEN status.summary ELSE "",
        tokens |-> tokens.input + tokens.output])]

RecordLastTokens(state, phase, status, tokens) ==
  [state EXCEPT
    !.iteration = state.iteration + 1,
    !.history = Append(state.history,
       [iteration |-> state.iteration + 1, phase |-> phase,
        result |-> IF status.present /\ status.result # "" THEN status.result ELSE "UNKNOWN",
        summary |-> IF status.present THEN status.summary ELSE "",
        tokens |-> IF tokens.given THEN tokens.input + tokens.output ELSE 0]),
    !.totalTokens = IF tokens.given THEN [input |-> tokens.input, output |-> tokens.output]
                    ELSE state.totalTokens]

\* tokens?.input || 0 and tokens?.output || 0: null tokens count as zero
recordIteration(state, phase, status, tokens) ==
  LET input == IF tokens.given THEN tokens.input ELSE 0
      output == IF tokens.given THEN tokens.output ELSE 0
  IN [state EXCEPT
       !.iteration = state.iteration + 1,
       !.history = Append(state.history,
          [iteration |-> state.iteration + 1, phase |-> phase,
           result |-> IF status.present /\ status.result # "" THEN status.result
                      ELSE "UNKNOWN",
           summary |-> IF status.present THEN status.summary ELSE "",
           tokens |-> input + output]),
       !.totalTokens = [input |-> state.totalTokens.input + input,
                        output |-> state.totalTokens.output + output]]

\* lastErrors.push(errorMsg), shifting the oldest out beyond five entries
PushUnbounded(errors, errorMsg) == Append(errors, errorMsg)

PushError(errors, errorMsg) ==
  LET pushed == Append(errors, errorMsg) IN
  IF Len(pushed) > MaxLastErrors THEN Tail(pushed) ELSE pushed

trackRetry(state, phase, errorMsg) ==
  LET n == Len(state.history)
      result == IF n > 0 THEN state.history[n].result ELSE Null
  IN [state EXCEPT
       !.consecutiveRetries =
          IF result = "NEEDS_RETRY" THEN state.consecutiveRetries + 1 ELSE 0,
       !.lastErrors = IF errorMsg # "" THEN PushError(state.lastErrors, errorMsg)
                      ELSE state.lastErrors]

MarkSkipped(state, phaseName) == [state EXCEPT !.consecutiveRetries = 0]

markPhaseCompleted(state, phaseName) ==
  [state EXCEPT
    !.completedPhases = IF Includes(state.completedPhases, phaseName)
                        THEN state.completedPhases
                        ELSE Append(state.completedPhases, phaseName),
    !.consecutiveRetries = 0]

\* Circuit breaker checks: each gives the halt reason, or Null for { halt: false }

IterationCapOffByOne(state) ==
  IF state.iteration > state.maxIterations THEN "max_iterations" ELSE Null

checkMaxIterations(state) ==
  IF state.iteration >= state.maxIterations THEN "max_iterations" ELSE Null

ConsecutiveRetriesOffByOne(state) ==
  IF state.consecutiveRetries > RetryThreshold THEN "consecutive_retries" ELSE Null

checkConsecutiveRetries(state) ==
  IF state.consecutiveRetries >= RetryThreshold THEN "consecutive_retries" ELSE Null

checkRepeatedErrors(state) ==
  LET n == Len(state.lastErrors) IN
  IF n < ErrorThreshold THEN Null
  ELSE IF \A i \in (n - ErrorThreshold + 1)..n :
            state.lastErrors[i] = state.lastErrors[n - ErrorThreshold + 1]
       THEN "repeated_errors"
       ELSE Null

checkCircuitBreaker(state) ==
  IF checkMaxIterations(state) # Null THEN checkMaxIterations(state)
  ELSE IF checkConsecutiveRetries(state) # Null THEN checkConsecutiveRetries(state)
  ELSE checkRepeatedErrors(state)

\* ------------------------------------------------------------------------
\* Child result (the summary lib/runner.js resolves with) and its classification
\* ------------------------------------------------------------------------

\* What the detectors can see of a text: whether a rate-limit pattern matches,
\* whether a transient-error pattern matches, and the retry-after it carries
Text(rateLimit, transient, retryAfter) ==
  [rateLimit |-> rateLimit, transient |-> transient, retryAfter |-> retryAfter]

Quiet == Text(FALSE, FALSE, 0)

\* `${stderr || ''} ${output || ''}`
Combined(stderr, output) ==
  [rateLimit |-> stderr.rateLimit \/ output.rateLimit,
   transient |-> stderr.transient \/ output.transient,
   retryAfter |-> IF stderr.retryAfter > 0 THEN stderr.retryAfter ELSE output.retryAfter]

extractRetryAfter(text) == text.retryAfter

DetectAnywhere(exitCode, stderr, output) ==
  IF Combined(stderr, output).rateLimit
  THEN [isRateLimit |-> TRUE, retryAfter |-> extractRetryAfter(Combined(stderr, output))]
  ELSE [isRateLimit |-> FALSE, retryAfter |-> 0]

detectRateLimit(exitCode, stderr, output) ==
  IF exitCode # 0 /\ Combined(stderr, output).rateLimit
  THEN [isRateLimit |-> TRUE, retryAfter |-> extractRetryAfter(Combined(stderr, output))]
  ELSE IF output.rateLimit
  THEN [isRateLimit |-> TRUE, retryAfter |-> extractRetryAfter(Combined(stderr, output))]
  ELSE [isRateLimit |-> FALSE, retryAfter |-> 0]

detectTransientError(exitCode, stderr, output) ==
  IF exitCode = 0 THEN FALSE ELSE Combined(stderr, output).transient

RATE_LIMIT_BUFFER_SECONDS == 30
maxRateLimitAttempts == 5
BackoffBase == 60

computeBackoff(attempt, maxWait) ==
  LET base == BackoffBase * Pow2(attempt) IN
  IF base <= maxWait THEN base ELSE maxWait

\* The seconds handleRateLimit sleeps (it then returns true)
handleRateLimit(retryAfterHint, attempt, maxAttempts, maxWaitTotal) ==
  LET baseWait == IF retryAfterHint > 0 THEN retryAfterHint
                  ELSE computeBackoff(attempt, maxWaitTotal)
  IN IF retryAfterHint > 0 THEN baseWait + RATE_LIMIT_BUFFER_SECONDS ELSE baseWait

RetryWithinWait(retryAfterHint, attempt, maxAttempts, maxWaitTotal) ==
  handleRateLimit(retryAfterHint, attempt, maxAttempts, maxWaitTotal) <= maxWaitTotal

\* ratelimit.js 107-120: what handleRateLimit resolves with after the countdown
ShouldRetry(retryAfterHint, attempt, maxAttempts, maxWaitTotal) == TRUE

\* The stdout text accumulated by the runner: empty or not, and its status block
Output(empty, hasBlock, result, summary, text) ==
  [empty |-> empty, hasBlock |-> hasBlock, result |-> result, summary |-> summary,
   rateLimit |-> text.rateLimit, transient |-> text.transient, retryAfter |-> text.retryAfter]

AgentResult(exitCode, output, stderr, sessionId) ==
  [success |-> exitCode = 0, exitCode |-> exitCode, output |-> output, stderr |-> stderr,
   sessionId |-> sessionId, tokensUsed |-> Tokens(1, 1)]

\* ------------------------------------------------------------------------
\* Recovery and repair (lib/state.js)
\* ------------------------------------------------------------------------

\* A JSON value where a number is expected: a number, or anything else
Num(n) == [num |-> TRUE, v |-> n]
NotNum == [num |-> FALSE, v |-> 0]

\* A JSON value where an array is expected: an array, or anything else
Arr(seq) == [arr |-> TRUE, v |-> seq]
NotArr == [arr |-> FALSE, v |-> << >>]

\* totalTokens as read from a file: an object of two fields, or anything else
Tok(input, output) == [obj |-> TRUE, input |-> input, output |-> output]

SelectValidRest(seq, valid) ==
  IF seq = << >> THEN << >> ELSE SelectSeq(Tail(seq), LAMBDA p : p \in valid)

SelectValid(seq, valid) == SelectSeq(seq, LAMBDA p : p \in valid)

repairState(raw, orderedPhaseNames) ==
  LET phaseSet == {orderedPhaseNames[i] : i \in 1..Len(orderedPhaseNames)}
      completed == IF raw.completedPhases.arr THEN raw.completedPhases.v ELSE << >>
  IN [raw EXCEPT
       !.phase = IF raw.phase \notin phaseSet
                 THEN (IF Len(orderedPhaseNames) > 0 THEN orderedPhaseNames[1] ELSE "DISCOVER")
                 ELSE raw.phase,
       !.iteration = IF ~raw.iteration.num \/ raw.iteration.v < 0
                     THEN Num(0) ELSE raw.iteration,
       !.maxIterations = IF ~raw.maxIterations.num \/ raw.maxIterations.v <= 0
                         THEN Num(DefaultMaxIterations) ELSE raw.maxIterations,
       !.history = IF raw.history.arr THEN raw.history ELSE Arr(<< >>),
       !.completedPhases = Arr(SelectValid(completed, phaseSet)),
       !.totalTokens = IF ~raw.totalTokens.obj THEN Tok(Num(0), Num(0))
                       ELSE Tok(IF raw.totalTokens.input.num THEN raw.totalTokens.input
                                ELSE Num(0),
                                IF raw.totalTokens.output.num THEN raw.totalTokens.output
                                ELSE Num(0)),
       !.currentSubTask = IF raw.currentSubTask.num THEN raw.currentSubTask ELSE Num(0),
       !.totalSubTasks = IF raw.totalSubTasks.num THEN raw.totalSubTasks ELSE Num(0),
       !.consecutiveRetries = Num(0),
       !.lastErrors = Arr(<< >>)]

\* JSON.stringify of a state the scheduler holds, read back by JSON.parse
ToJson(state) ==
  [state EXCEPT
    !.iteration = Num(state.iteration),
    !.maxIterations = Num(state.maxIterations),
    !.currentSubTask = Num(state.currentSubTask),
    !.totalSubTasks = Num(state.totalSubTasks),
    !.consecutiveRetries = Num(state.consecutiveRetries),
    !.totalTokens = Tok(Num(state.totalTokens.input), Num(state.totalTokens.output)),
    !.history = Arr(state.history),
    !.completedPhases = Arr(state.completedPhases),
    !.lastErrors = Arr(state.lastErrors)]

\* The state object main() works on once repairState has normalised its fields
FromJson(raw) ==
  [raw EXCEPT
    !.iteration = raw.iteration.v,
    !.maxIterations = raw.maxIterations.v,
    !.currentSubTask = raw.currentSubTask.v,
    !.totalSubTasks = raw.totalSubTasks.v,
    !.consecutiveRetries = raw.consecutiveRetries.v,
    !.totalTokens = [input |-> raw.totalTokens.input.v, output |-> raw.totalTokens.output.v],
    !.history = raw.history.v,
    !.completedPhases = raw.completedPhases.v,
    !.lastErrors = raw.lastErrors.v]

ARTIFACT_PHASE_MAP ==
  [f \in {"requirements.md", "stories.md", "kpis.md", "domain.md", "bdd-scenarios.md",
          "plan.md", "quality-report.md", "innovation-log.md"} |->
     CASE f = "requirements.md" -> "REQUIREMENTS"
       [] f = "stories.md" -> "REQUIREMENTS"
       [] f = "kpis.md" -> "PRIORITIZE"
       [] f = "domain.md" -> "DOMAIN"
       [] f = "bdd-scenarios.md" -> "BDD"
       [] f = "plan.md" -> "PLAN"
       [] f = "quality-report.md" -> "GATE_QUALITY"
       [] OTHER -> "INNOVATE"]

InferLatestCompleted(files, orderedPhaseNames) ==
  LET detectedPhases ==
        {ARTIFACT_PHASE_MAP[f] : f \in files \cap DOMAIN ARTIFACT_PHASE_MAP}
          \cup (IF "prd" \in files THEN {"DISCOVER"} ELSE {})
      indexes == {IndexOf(orderedPhaseNames, p) : p \in detectedPhases}
      latestIndex == CHOOSE i \in indexes : \A j \in indexes : j <= i
  IN IF detectedPhases = {} \/ latestIndex < 0
     THEN [completedPhases |-> << >>, latestDetectedPhase |-> Null]
     ELSE [completedPhases |-> SubSeq(orderedPhaseNames, 1, latestIndex + 1),
           latestDetectedPhase |-> orderedPhaseNames[latestIndex + 1]]

\* files: the non-empty artifact files present; "prd" stands for a prd/ directory
\* holding at least one .md file
inferCompletedPhases(files, orderedPhaseNames) ==
  LET detectedPhases ==
        {ARTIFACT_PHASE_MAP[f] : f \in files \cap DOMAIN ARTIFACT_PHASE_MAP}
          \cup (IF "prd" \in files THEN {"DISCOVER"} ELSE {})
      indexes == {IndexOf(orderedPhaseNames, p) : p \in detectedPhases}
      latestIndex == CHOOSE i \in indexes : \A j \in indexes : j <= i
  IN IF detectedPhases = {} THEN [completedPhases |-> << >>, latestDetectedPhase |-> Null]
     ELSE IF latestIndex < 0
     THEN [completedPhases |-> << >>, latestDetectedPhase |-> Null]
     ELSE [completedPhases |-> SubSeq(orderedPhaseNames, 1, latestIndex),
           latestDetectedPhase |-> orderedPhaseNames[latestIndex + 1]]

inferResumePhase(completedPhases, latestDetectedPhase, orderedPhaseNames) ==
  IF Truthy(latestDetectedPhase) THEN latestDetectedPhase
  ELSE IF Len(completedPhases) > 0 THEN
    LET indexes == {IndexOf(orderedPhaseNames, completedPhases[i]) : i \in 1..Len(completedPhases)}
        maxIdx == CHOOSE i \in indexes : \A j \in indexes : j <= i
    IN IF maxIdx + 1 < Len(orderedPhaseNames) THEN orderedPhaseNames[maxIdx + 2]
       ELSE orderedPhaseNames[1]
  ELSE orderedPhaseNames[1]

\* planCount: the number of "## Sub-task N" headings of plan.md, -1 without the file
recoverStateFromArtifacts(task, files, planCount, orderedPhaseNames, maxIterations, maxPhaseRetries) ==
  LET inferred == inferCompletedPhases(files, orderedPhaseNames)
      resumePhase == inferResumePhase(inferred.completedPhases, inferred.latestDetectedPhase,
                                      orderedPhaseNames)
      fresh == createInitialState(task, maxIterations, maxPhaseRetries, resumePhase)
  IN [fresh EXCEPT
       !.completedPhases = inferred.completedPhases,
       !.totalSubTasks = IF planCount > 0 THEN planCount ELSE 0]

\* ------------------------------------------------------------------------
\* main() of forge.js: launch, phase loop, SIGINT handler
\* ------------------------------------------------------------------------

VARIABLES
  args,             \* parsed command line: maxIterations, maxPhaseRetries, rateLimitWait
  wfState,          \* the workflow state object
  disk,             \* .cloudforge/state.json: the state last saved, if any
  currentPhase,     \* loop variable of the phase loop (Null ends it)
  phaseRetryCount,  \* loop variable: retries of the current phase
  rateLimitAttempt, \* waited attempts of the current phase execution
  pc,               \* "loop": top of the phase loop, "running": awaiting runAgent,
                    \* "waiting": awaiting the countdown, "exited": main returned
  exitCode,         \* the process exit code once pc = "exited"
  haltReason,       \* why main returned
  activeProcess,    \* whether a child handle is tracked
  shuttingDown,
  waitTime,         \* seconds of the countdown being awaited
  launch,           \* how the state was obtained: "fresh", "loaded", "recovered"
  spawned,          \* child processes spawned since launch
  phaseSpawns,      \* child processes spawned in the current phase execution
  throttled,        \* results classified rate-limited or transient since launch
  retryBacks,       \* per phase: times its retry transition led to another phase
  onlyNoStatus,     \* every child so far exited 0 without a status block
  kind,             \* the kind of run: what the child may answer (Repertoire)
  startIteration,   \* wfState.iteration when the phase loop was entered
  sigterm,          \* whether SIGTERM was sent to a child
  planHeadings,     \* what the last reading of plan.md found (PlanFiles), -1 before any
  resume,           \* the --resume argument of the running child, Null without one
  returned,         \* the session id most recently returned by a child in this run
  env,              \* what main() finds at launch: command line mode, state file, artifacts
  call              \* a library function applied on its own: its arguments and result

vars == << args, wfState, disk, currentPhase, phaseRetryCount, rateLimitAttempt, pc,
           exitCode, haltReason, activeProcess, shuttingDown, waitTime, launch,
           spawned, phaseSpawns, throttled, retryBacks, onlyNoStatus, kind,
           startIteration, sigterm, planHeadings, resume, returned, env, call,
           workflow >>

NoDisk == [saved |-> FALSE]
SaveSkipped(state) == NoDisk

saveState(state) == [saved |-> TRUE, state |-> state]

\* ---- inputs ----

MaxRemaining == 5     \* iterations left to the cap when the loop is entered
MaxThrottled == 5     \* rate-limited / transient results the child gives per run
MaxPlan == 2          \* sub-task headings in plan.md

RetryAfterHint == 120

\* plan.md as the scheduler finds it: -1 no file, else its number of headings
PlanFiles == -1..MaxPlan

\* The two plans that differ to the scheduler of a run with arbitrary
\* statuses: none, and one of several sub-tasks
PlanInputs == {-1, MaxPlan}

Done == AgentResult(0, Output(FALSE, TRUE, "DONE", "ok", Quiet), Quiet, "s1")
NeedsRetry == AgentResult(0, Output(FALSE, TRUE, "NEEDS_RETRY", "e1", Quiet), Quiet, "s1")
RateLimited == AgentResult(1, Output(TRUE, FALSE, "", "", Quiet), Text(TRUE, FALSE, 0), Null)
RateLimitedExit0 ==
  AgentResult(0, Output(FALSE, TRUE, "DONE", "ok", Text(TRUE, FALSE, 0)), Quiet, "s1")

\* What the child may answer in one run, by the kind of run
Repertoire(k) ==
  LET Blocked ==
        AgentResult(0, Output(FALSE, TRUE, "BLOCKED", "stuck", Quiet), Quiet, "s1")
      Failed ==
        AgentResult(0, Output(FALSE, TRUE, "FAILED", "e2", Quiet), Quiet, "s1")
      NoBlock ==
        AgentResult(0, Output(FALSE, FALSE, "", "", Quiet), Quiet, "s1")
      NoBlockExit1 ==
        AgentResult(1, Output(FALSE, FALSE, "", "", Quiet), Quiet, "s1")
      Crash ==
        AgentResult(1, Output(TRUE, FALSE, "", "", Quiet), Quiet, Null)
      SpawnFailure ==
        AgentResult(-1, Output(TRUE, FALSE, "", "", Quiet), Quiet, Null)
      RateLimitedHint ==
        AgentResult(1, Output(TRUE, FALSE, "", "", Quiet), Text(TRUE, FALSE, RetryAfterHint), Null)
      StderrNoiseExit0 ==
        AgentResult(0, Output(FALSE, TRUE, "DONE", "ok", Quiet), Text(TRUE, FALSE, 0), "s1")
      DoneNewSession ==
        AgentResult(0, Output(FALSE, TRUE, "DONE", "ok", Quiet), Quiet, "s2")
      Transient ==
        AgentResult(1, Output(TRUE, FALSE, "", "", Quiet), Text(FALSE, TRUE, 0), Null)
  IN
  CASE k = "verdicts" -> {Done, NeedsRetry, Blocked}
    [] k = "silent" -> {Done, NoBlock, NoBlockExit1, Crash, SpawnFailure}
    [] k = "odd" -> {Done, Failed, NeedsRetry}
    [] k = "done" -> {Done}
    [] k = "sessions" -> {Done, DoneNewSession, NeedsRetry, RateLimited, RateLimitedExit0}
    [] OTHER -> {Done, StderrNoiseExit0, RateLimited, RateLimitedHint, RateLimitedExit0,
                 Transient}

IsThrottled(r) ==
  \/ detectRateLimit(r.exitCode, r.stderr, r.output).isRateLimit
  \/ detectTransientError(r.exitCode, r.stderr, r.output)

\* The phases that have both a retry and a retry_exhausted transition
ExhaustiblePhases ==
  { loadWorkflow[i].name : i \in { j \in 1..Len(loadWorkflow) :
      /\ Truthy(loadWorkflow[j].transitions.retry)
      /\ Truthy(loadWorkflow[j].transitions.retry_exhausted) } }

\* ---- launch ----

Args(maxIterations, maxPhaseRetries, rateLimitWait) ==
  [maxIterations |-> maxIterations, maxPhaseRetries |-> maxPhaseRetries,
   rateLimitWait |-> rateLimitWait]

DefaultRateLimitWait == 43200

\* A state.json: what an earlier run saved, or a damaged file
StateFile(phase, iteration, maxIterations, currentSubTask, totalSubTasks, completedPhases) ==
  [ sessionId |-> "s0",
    task |-> "task",
    phase |-> phase,
    currentSubTask |-> currentSubTask,
    totalSubTasks |-> totalSubTasks,
    iteration |-> iteration,
    maxIterations |-> maxIterations,
    maxPhaseRetries |-> DefaultMaxPhaseRetries,
    totalTokens |-> Tok(Num(0), Num(0)),
    history |-> Arr(<< >>),
    completedPhases |-> completedPhases,
    consecutiveRetries |-> Num(3),
    lastErrors |-> Arr(<< "e1", "e1", "e1" >>) ]

StateFiles ==
  { StateFile("TEST", Num(20), Num(20 + MaxRemaining), Num(1), Num(1),
              Arr(SubSeq(getOrderedPhaseNames, 1, 10))),
    StateFile("REFACTOR", Num(0), Num(MaxRemaining), Num(1), Num(2),
              Arr(SubSeq(getOrderedPhaseNames, 1, 13))),
    StateFile("PLAN", Num(0), Num(MaxRemaining), Num(2), Num(2),
              Arr(SubSeq(getOrderedPhaseNames, 1, 17))),
    StateFile("GATE_QUALITY", Num(0), Num(MaxRemaining), Num(1), Num(1),
              Arr(SubSeq(getOrderedPhaseNames, 1, 15))),
    StateFile("INNOVATE", Num(1), Num(MaxRemaining), Num(2), Num(2),
              Arr(SubSeq(getOrderedPhaseNames, 1, 17))),
    StateFile("BOGUS", NotNum, NotNum, NotNum, NotNum, NotArr),
    StateFile(Null, Num(-4), Num(0), Num(0), Num(0), Arr(<< "BOGUS", "PLAN", "DISCOVER" >>)),
    StateFile("DISCOVER", Num(DefaultMaxIterations - 3), NotNum, Num(0), Num(0), Arr(<< >>)),
    StateFile("VERIFY", Num(DefaultMaxIterations + 5), Num(-1), Num(1), Num(2), NotArr),
    StateFile("DESIGN", Num(4), Num(3), Num(0), Num(0), Arr(<< "DISCOVER", "DISCOVER" >>)) }

\* The non-empty artifacts a recovery may find, with the heading count of plan.md
ArtifactDirs ==
  { [files |-> {"requirements.md"}, planCount |-> -1],
    [files |-> {"prd", "requirements.md", "kpis.md", "plan.md"}, planCount |-> MaxPlan],
    [files |-> {"stories.md", "quality-report.md"}, planCount |-> 0],
    [files |-> {"innovation-log.md", "plan.md"}, planCount |-> 1] }

FreshStates(a) ==
  { createInitialState("task", a.maxIterations, a.maxPhaseRetries, getFirstPhase) }

LoadedStates == { FromJson(repairState(f, getOrderedPhaseNames)) : f \in StateFiles }

RecoveredStates(a) ==
  { recoverStateFromArtifacts("task", d.files, d.planCount, getOrderedPhaseNames,
                              a.maxIterations, a.maxPhaseRetries) : d \in ArtifactDirs }

Ghost0 ==
  /\ pc = "loop"
  /\ exitCode = -1
  /\ haltReason = Null
  /\ activeProcess = FALSE
  /\ shuttingDown = FALSE
  /\ sigterm = FALSE
  /\ planHeadings = -1
  /\ resume = Null
  /\ returned = Null
  /\ waitTime = 0
  /\ spawned = 0
  /\ phaseSpawns = 0
  /\ throttled = 0
  /\ retryBacks = [p \in ExhaustiblePhases |-> 0]
  /\ onlyNoStatus = TRUE
  /\ phaseRetryCount = 0
  /\ rateLimitAttempt = 0

\* The launches explored: the maximum wait matters to throttled runs only, the
\* command line's iteration cap is not read when a state file is loaded
Explored(a, k, l) ==
  /\ k = "throttled" => l = "fresh" /\ a.maxPhaseRetries = DefaultMaxPhaseRetries
  /\ k # "throttled" => a.rateLimitWait = DefaultRateLimitWait
  /\ l = "loaded" => a.maxIterations = MaxRemaining

\* Nothing is applied on its own, and the launch has been made, in a run of the loop
NoCall == [fn |-> "none"]
NoEnv == [mode |-> "launched"]

Init ==
  /\ workflow = "production"
  /\ env = NoEnv
  /\ call = NoCall
  \* command lines: the iteration cap, the per-phase retry cap, the maximum wait
  /\ args \in
       { Args(mi, DefaultMaxPhaseRetries, DefaultRateLimitWait) : mi \in {-1, 2, MaxRemaining} }
       \cup { Args(MaxRemaining, mr, DefaultRateLimitWait) : mr \in {2, 4} }
       \cup { Args(2, DefaultMaxPhaseRetries, 100) }
  /\ kind \in {"verdicts", "silent", "odd", "throttled"}
  /\ launch \in {"fresh", "loaded", "recovered"}
  /\ Explored(args, kind, launch)
  /\ wfState \in CASE launch = "fresh" -> FreshStates(args)
                   [] launch = "loaded" -> LoadedStates
                   [] OTHER -> RecoveredStates(args)
  /\ wfState.maxIterations - wfState.iteration <= MaxRemaining
  /\ disk = NoDisk
  /\ currentPhase = wfState.phase
  /\ startIteration = wfState.iteration
  /\ Ghost0

\* ---- phase loop ----

Exit(code, reason) ==
  /\ pc' = "exited"
  /\ exitCode' = code
  /\ haltReason' = reason

EnterSubTaskNever(state, phase, retryCount) == state

\* forge.js 239-243: entering TEST for a new sub-task advances the cursor
EnterSubTask(state, phase, retryCount) ==
  IF phase = PHASE_NAMES("TEST") /\ retryCount = 0
  THEN [state EXCEPT !.currentSubTask = @ + 1]
  ELSE state

\* runner.js 23-24: --resume is passed when the state holds a session id
buildArgs(sessionId) == IF Truthy(sessionId) THEN sessionId ELSE Null

\* forge.js 214-243 and the first runAgent call: circuit breaker, sub-task
\* cursor, then the child is spawned
LoopTop ==
  /\ pc = "loop"
  /\ LET breaker == checkCircuitBreaker(wfState)
     IN IF breaker # Null THEN
          /\ disk' = saveState(wfState)
          /\ Exit(1, breaker)
          /\ UNCHANGED << wfState, rateLimitAttempt, activeProcess, spawned, phaseSpawns,
                          resume >>
        ELSE IF shuttingDown THEN
          /\ disk' = saveState(wfState)
          /\ Exit(0, "shutdown")
          /\ UNCHANGED << wfState, rateLimitAttempt, activeProcess, spawned, phaseSpawns,
                          resume >>
        ELSE
          /\ wfState' = EnterSubTask(wfState, currentPhase, phaseRetryCount)
          /\ resume' = buildArgs(wfState.sessionId)
          /\ rateLimitAttempt' = 0
          /\ activeProcess' = TRUE
          /\ spawned' = spawned + 1
          /\ phaseSpawns' = 1
          /\ pc' = "running"
          /\ UNCHANGED << disk, exitCode, haltReason >>
  /\ UNCHANGED << args, kind, startIteration, env, call, workflow, sigterm, planHeadings,
                  returned, currentPhase,
                  phaseRetryCount, shuttingDown, waitTime, launch,
                  throttled, retryBacks, onlyNoStatus >>

\* forge.js 335-345: the status of the finished invocation
StatusOf(r, phase) ==
  LET parsed == parseCloudForgeStatus(r.output) IN
  IF parsed.present THEN parsed ELSE synthesizeStatus(NoStatus, r.success, phase)

PlanSubTasksOrNone(planCount) == IF planCount > 0 THEN planCount ELSE 0

\* forge.js 347-359: totalSubTasks after a PLAN iteration that ended DONE
PlanSubTasks(planCount) == IF planCount > 0 THEN planCount ELSE 1

AfterPlan(state, phase, status, planCount) ==
  IF phase = PHASE_NAMES("PLAN") /\ status.result = "DONE"
  THEN [state EXCEPT !.totalSubTasks = PlanSubTasks(planCount), !.currentSubTask = 0]
  ELSE state

\* forge.js 361-369
NextRetryCount(status, retryCount) ==
  IF status.result = "NEEDS_RETRY" THEN retryCount + 1 ELSE 0

TrackAnyFailure(state, phase, status) ==
  IF status.result = "DONE" THEN markPhaseCompleted(state, phase)
  ELSE trackRetry(state, phase, status.summary)

Track(state, phase, status) ==
  IF status.result = "NEEDS_RETRY" THEN trackRetry(state, phase, status.summary)
  ELSE IF status.result = "DONE" THEN markPhaseCompleted(state, phase)
  ELSE state

RecordedAhead(state, phase, r, planCount) ==
  LET status == StatusOf(r, phase)
      s1 == recordIteration(state, phase, status, r.tokensUsed)
      s2 == AfterPlan(s1, phase, status, planCount)
      s3 == Track(s2, phase, status)
  IN [s3 EXCEPT !.phase = OrNull(getPhaseConfig(phase).transitions.done)]

\* forge.js 344-373: the state saved at the end of the iteration
Recorded(state, phase, r, planCount) ==
  LET status == StatusOf(r, phase)
      s1 == recordIteration(state, phase, status, r.tokensUsed)
      s2 == AfterPlan(s1, phase, status, planCount)
      s3 == Track(s2, phase, status)
  IN [s3 EXCEPT !.phase = phase]

TransitionNoReset(state, phase, nextPhase) == [state EXCEPT !.phase = nextPhase]

\* forge.js 393-401: the state the loop continues with
Transition(state, phase, nextPhase) ==
  IF nextPhase # phase
  THEN [state EXCEPT !.consecutiveRetries = 0, !.lastErrors = << >>, !.phase = nextPhase]
  ELSE [state EXCEPT !.phase = nextPhase]

WaitForHint(r, attempt, rateLimitWait) ==
  handleRateLimit(Combined(r.stderr, r.output).retryAfter, attempt, maxRateLimitAttempts,
                  rateLimitWait)

\* forge.js 293-313: the wait after a rate-limited result (with its hint) or a
\* transient error (without)
WaitFor(r, attempt, rateLimitWait) ==
  LET rl == detectRateLimit(r.exitCode, r.stderr, r.output) IN
  handleRateLimit(IF rl.isRateLimit THEN rl.retryAfter ELSE 0, attempt,
                  maxRateLimitAttempts, rateLimitWait)

CaptureFirstSession(state, r) ==
  IF r.sessionId # Null /\ state.sessionId = Null
  THEN [state EXCEPT !.sessionId = r.sessionId] ELSE state

\* forge.js 290-291: the session id of the result is kept
CaptureSession(state, r) ==
  IF r.sessionId # Null THEN [state EXCEPT !.sessionId = r.sessionId] ELSE state

\* forge.js 281-402: the continuation of `await runner.runAgent(...)`
AgentExit(r, planCount) ==
  /\ pc = "running"
  /\ IsThrottled(r) => throttled < MaxThrottled
  /\ activeProcess' = FALSE
  /\ onlyNoStatus' = (onlyNoStatus /\ r.exitCode = 0 /\ ~r.output.hasBlock)
  /\ resume' = Null
  /\ returned' = IF r.sessionId # Null THEN r.sessionId ELSE returned
  /\ planHeadings' = IF /\ ~IsThrottled(r)
                        /\ r.success \/ ~r.output.empty
                        /\ currentPhase = PHASE_NAMES("PLAN")
                        /\ StatusOf(r, currentPhase).result = "DONE"
                     THEN planCount ELSE planHeadings
  /\ LET captured == CaptureSession(wfState, r)
         rl == detectRateLimit(r.exitCode, r.stderr, r.output)
         te == detectTransientError(r.exitCode, r.stderr, r.output)
         status == StatusOf(r, currentPhase)
         saved == Recorded(captured, currentPhase, r, planCount)
         retryCount == NextRetryCount(status, phaseRetryCount)
         nextPhase == getNextPhase(currentPhase, status, saved.currentSubTask,
                                   saved.totalSubTasks, retryCount, args.maxPhaseRetries)
     IN IF /\ rl.isRateLimit
           /\ ~ShouldRetry(rl.retryAfter, rateLimitAttempt, maxRateLimitAttempts,
                           args.rateLimitWait)
        THEN
          \* forge.js 298-302, reached once the countdown is over
          /\ wfState' = captured
          /\ disk' = saveState(captured)
          /\ throttled' = throttled + 1
          /\ Exit(1, "wait_exceeded")
          /\ UNCHANGED << currentPhase, phaseRetryCount, waitTime, retryBacks >>
        ELSE IF rl.isRateLimit \/ te THEN
          /\ wfState' = captured
          /\ waitTime' = WaitFor(r, rateLimitAttempt, args.rateLimitWait)
          /\ throttled' = throttled + 1
          /\ pc' = "waiting"
          /\ UNCHANGED << disk, currentPhase, phaseRetryCount, exitCode, haltReason,
                          retryBacks >>
        ELSE IF ~r.success /\ r.output.empty THEN
          /\ wfState' = captured
          /\ disk' = saveState(captured)
          /\ Exit(1, "agent_failed")
          /\ UNCHANGED << currentPhase, phaseRetryCount, waitTime, throttled, retryBacks >>
        ELSE IF nextPhase = Null THEN
          /\ wfState' = saved
          /\ disk' = saveState(saved)
          /\ phaseRetryCount' = retryCount
          /\ Exit(0, "finished")
          /\ UNCHANGED << currentPhase, waitTime, throttled, retryBacks >>
        ELSE
          /\ wfState' = Transition(saved, currentPhase, nextPhase)
          /\ disk' = saveState(saved)
          /\ phaseRetryCount' = IF nextPhase # currentPhase THEN 0 ELSE retryCount
          /\ currentPhase' = nextPhase
          /\ retryBacks' =
               IF /\ currentPhase \in ExhaustiblePhases
                  /\ status.result = "NEEDS_RETRY"
                  /\ nextPhase = getPhaseConfig(currentPhase).transitions.retry
                  /\ nextPhase # getPhaseConfig(currentPhase).transitions.retry_exhausted
               THEN [retryBacks EXCEPT ![currentPhase] = @ + 1]
               ELSE retryBacks
          /\ pc' = "loop"
          /\ UNCHANGED << waitTime, throttled, exitCode, haltReason >>
  /\ UNCHANGED << args, kind, startIteration, env, call, workflow, sigterm, rateLimitAttempt,
                  shuttingDown, launch, spawned, phaseSpawns >>

AttemptsLeftInclusive(attempt) == attempt <= maxRateLimitAttempts

\* forge.js 270: while (rateLimitAttempt < maxRateLimitAttempts)
AttemptsLeft(attempt) == attempt < maxRateLimitAttempts

\* forge.js 304-324: the continuation of `await ratelimit.handleRateLimit(...)`
WaitDone ==
  /\ pc = "waiting"
  /\ rateLimitAttempt' = rateLimitAttempt + 1
  /\ waitTime' = 0
  /\ IF AttemptsLeft(rateLimitAttempt + 1) THEN
       /\ activeProcess' = TRUE
       /\ spawned' = spawned + 1
       /\ phaseSpawns' = phaseSpawns + 1
       /\ resume' = buildArgs(wfState.sessionId)
       /\ pc' = "running"
       /\ UNCHANGED << disk, exitCode, haltReason >>
     ELSE
       /\ disk' = saveState(wfState)
       /\ Exit(1, "attempts_exhausted")
       /\ UNCHANGED << activeProcess, spawned, phaseSpawns, resume >>
  /\ UNCHANGED << args, kind, startIteration, env, call, workflow, sigterm, planHeadings,
                  returned, wfState,
                  currentPhase,
                  phaseRetryCount, shuttingDown, launch,
                  throttled, retryBacks, onlyNoStatus >>

KillAlways(handle) == TRUE

\* forge.js 204-206: SIGTERM goes to the tracked child, when there is one
Kill(handle) == handle

\* forge.js 197-208: the SIGINT handler, run while main awaits
Sigint ==
  /\ pc \in {"running", "waiting"}
  /\ IF shuttingDown THEN
       /\ Exit(1, "forced")
       /\ UNCHANGED << shuttingDown, disk, sigterm >>
     ELSE
       /\ shuttingDown' = TRUE
       /\ disk' = saveState(wfState)
       /\ sigterm' = Kill(activeProcess)
       /\ Exit(0, "sigint")
  /\ UNCHANGED << args, kind, startIteration, env, call, workflow, planHeadings, resume,
                  returned, wfState, currentPhase,
                  phaseRetryCount, rateLimitAttempt, waitTime, activeProcess, launch, spawned,
                  phaseSpawns, throttled, retryBacks, onlyNoStatus >>

Next ==
  \/ LoopTop
  \/ \E r \in Repertoire(kind) :
       \E planCount \in (IF currentPhase = "PLAN" THEN PlanInputs ELSE {-1}) :
         AgentExit(r, planCount)
  \/ WaitDone
  \/ Sigint

Spec == Init /\ [][Next]_vars

\* ------------------------------------------------------------------------
\* Library functions applied on their own
\* ------------------------------------------------------------------------

\* main() is not running: its variables rest at their values before the loop
Parked(at) ==
  /\ args = Args(MaxRemaining, DefaultMaxPhaseRetries, DefaultRateLimitWait)
  /\ kind = "verdicts"
  /\ launch = "fresh"
  /\ wfState = createInitialState("task", args.maxIterations, args.maxPhaseRetries,
                                  getFirstPhase)
  /\ disk = NoDisk
  /\ currentPhase = wfState.phase
  /\ startIteration = 0
  /\ exitCode = -1
  /\ haltReason = Null
  /\ activeProcess = FALSE
  /\ shuttingDown = FALSE
  /\ sigterm = FALSE
  /\ planHeadings = -1
  /\ resume = Null
  /\ returned = Null
  /\ waitTime = 0
  /\ spawned = 0
  /\ phaseSpawns = 0
  /\ throttled = 0
  /\ retryBacks = [p \in ExhaustiblePhases |-> 0]
  /\ onlyNoStatus = TRUE
  /\ phaseRetryCount = 0
  /\ rateLimitAttempt = 0
  /\ pc = at

MaxSubTasks == 2      \* sub-task numbers and totals handed to getNextPhase
MaxRetryCount == 4    \* retry counts handed to getNextPhase

\* The statuses a caller may hand over: none, each result, an empty result
GetNextPhaseCalls ==
  LET CallStatuses ==
        {NoStatus}
          \cup {Status(r, "s") : r \in {"DONE", "BLOCKED", "NEEDS_RETRY", "FAILED", ""}}
      CallPhases ==
        {getOrderedPhaseNames[i] : i \in 1..Len(getOrderedPhaseNames)} \cup {"NOSUCH"}
  IN
  { [fn |-> "getNextPhase", done |-> FALSE, result |-> Null, currentPhase |-> p,
     status |-> st, subTaskNumber |-> n, totalSubTasks |-> t, retryCount |-> rc,
     maxRetries |-> mr] :
      p \in CallPhases, st \in CallStatuses, n \in 0..MaxSubTasks, t \in 0..MaxSubTasks,
      rc \in 0..MaxRetryCount, mr \in {DefaultMaxPhaseRetries - 1, DefaultMaxPhaseRetries} }

\* Ordered phase lists handed to recovery: the production workflow, the
\* five-phase workflow (no artifact names a phase of it), and lists whose
\* order differs from the production order
\* The artifact names recovery looks for; "prd" is a prd/ directory with a .md file
RecoverCalls ==
  LET ArtifactNames == DOMAIN ARTIFACT_PHASE_MAP \cup {"prd"}
      PhaseLists ==
        { getOrderedPhaseNames,
          << "A", "B", "C", "D", "E" >>,
          << "PLAN", "REQUIREMENTS", "DISCOVER", "DOMAIN" >>,
          << "DISCOVER", "BDD", "INNOVATE", "PRIORITIZE" >>,
          << "GATE_QUALITY" >> }
  IN
  { [fn |-> "recoverStateFromArtifacts", done |-> FALSE, result |-> Null, files |-> f,
     planCount |-> n, orderedPhaseNames |-> l] :
      f \in SUBSET ArtifactNames, n \in {-1, MaxPlan}, l \in PhaseLists }

\* Parsed state files: each field sound, missing or wrongly typed (or not
\* finite), negative, or holding entries that are no phase names
RepairCalls ==
  LET RawStates ==
        { [ sessionId |-> "s0",
            task |-> "task",
            phase |-> ph,
            currentSubTask |-> cur,
            totalSubTasks |-> tot,
            iteration |-> it,
            maxIterations |-> mi,
            maxPhaseRetries |-> DefaultMaxPhaseRetries,
            totalTokens |-> tok,
            history |-> h,
            completedPhases |-> cp,
            consecutiveRetries |-> cr,
            lastErrors |-> le ] :
            ph \in {Null, "BOGUS", "DESIGN"},
            cur \in {NotNum, Num(-1), Num(1)},
            tot \in {NotNum, Num(-2), Num(2)},
            it \in {NotNum, Num(-1), Num(2)},
            mi \in {NotNum, Num(0), Num(3)},
            tok \in {[obj |-> FALSE, input |-> NotNum, output |-> NotNum],
                    Tok(NotNum, Num(-5)), Tok(Num(1), Num(2))},
            h \in {NotArr, Arr(<< >>)},
            cp \in {NotArr, Arr(<< "DISCOVER" >>), Arr(<< "BOGUS", "PLAN", "DISCOVER", "PLAN" >>)},
            cr \in {NotNum, Num(3)},
            le \in {NotArr, Arr(<< "e1", "e1", "e1" >>)} }
  IN
  { [fn |-> "repairState", done |-> FALSE, result |-> Null, again |-> Null, state |-> st,
     orderedPhaseNames |-> l] :
      st \in RawStates, l \in {getOrderedPhaseNames, << >>} }

MaxLines == 3   \* lines of a workflow file handed to parseWorkflowFile

\* The lines a workflow file is made of: transitions among two phases and END
\* under two conditions, starred or not, and two kinds of other lines
RECURSIVE Files(_)
Files(n) ==
  LET WorkflowLines ==
        { TransitionLine(st, f, t, c) :
            st \in BOOLEAN, f \in {"A", "B"}, t \in {"B", "END"}, c \in {"done", "retry"} }
        \cup { OtherLine(x) : x \in {"comment", "junk"} }
  IN
  IF n = 0 THEN { << >> }
  ELSE Files(n - 1) \cup { Append(f, l) : f \in {g \in Files(n - 1) : Len(g) = n - 1},
                                           l \in WorkflowLines }

ParseCalls ==
  { [fn |-> "parseWorkflowFile", done |-> FALSE, result |-> Null, lines |-> f] :
      f \in Files(MaxLines) }

InitParse ==
  /\ workflow = "production"
  /\ env = NoEnv
  /\ call \in ParseCalls
  /\ Parked("call")

\* phases.parseWorkflowFile(content)
ApplyParse ==
  /\ call.fn = "parseWorkflowFile"
  /\ ~call.done
  /\ call' = [call EXCEPT !.done = TRUE, !.result = parseWorkflowFile(call.lines)]
  /\ UNCHANGED << args, wfState, disk, currentPhase, phaseRetryCount, rateLimitAttempt, pc,
                  exitCode, haltReason, activeProcess, shuttingDown, waitTime, launch,
                  spawned, phaseSpawns, throttled, retryBacks, onlyNoStatus, kind,
                  startIteration, sigterm, planHeadings, resume, returned, env, workflow >>

SpecParse == InitParse /\ [][ApplyParse]_vars

\* The texts of a stream: whether a rate-limit pattern matches, whether a
\* transient-error pattern matches, and the retry-after hint it carries
Texts == { Text(rl, tr, ra) : rl \in BOOLEAN, tr \in BOOLEAN, ra \in {0, RetryAfterHint} }

DetectCalls ==
  { [fn |-> "detectRateLimit", done |-> FALSE, result |-> Null, exitCode |-> e,
     stderr |-> se, output |-> so] :
      e \in {-1, 0, 1}, se \in Texts, so \in Texts }

\* Results after which main() waits: rate limited or a transient error, on
\* either stream, with or without a retry-after hint in the text
WaitCalls ==
  LET ThrottledResults ==
        { r \in { AgentResult(e, Output(FALSE, FALSE, "", "", so), se, Null) :
                    e \in {0, 1}, se \in Texts, so \in Texts } : IsThrottled(r) }
  IN
  { [fn |-> "wait", done |-> FALSE, result |-> Null, r |-> r, attempt |-> a,
     rateLimitWait |-> w] :
      r \in ThrottledResults, a \in 0..(maxRateLimitAttempts - 1),
      w \in {100, 600, DefaultRateLimitWait} }

\* ---- parseCloudForgeStatus on text ----

MaxStatusLines == 4   \* lines of an output handed to parseCloudForgeStatus

\* A line of output: the sentinel, a blank line, a `key: value` line (the
\* value possibly empty) or other text; raw is the line without its indentation
StatusLine(shape, key, value) ==
  [kind |-> shape, key |-> key, value |-> value,
   raw |-> CASE shape = "sentinel" -> "CLOUDFORGE_STATUS:"
             [] shape = "field" -> key \o ": " \o value
             [] shape = "blank" -> ""
             [] OTHER -> value]

toLowerCase(key) ==
  CASE key = "Result" -> "result"
    [] key = "TASKSREMAINING" -> "tasksremaining"
    [] key = "CLOUDFORGE_STATUS" -> "cloudforge_status"
    [] OTHER -> key

toUpperCase(text) ==
  CASE text = "done" -> "DONE"
    [] text = "All done" -> "ALL DONE"
    [] text = "result: done" -> "RESULT: DONE"
    [] text = "Result:" -> "RESULT:"
    [] text = "tasks_remaining: 5" -> "TASKS_REMAINING: 5"
    [] text = "TASKSREMAINING: TBD" -> "TASKSREMAINING: TBD"
    [] text = "summary:  ok" -> "SUMMARY:  OK"
    [] text = "ok" -> "OK"
    [] OTHER -> text

\* String.prototype.trim on the texts of the alphabet
Trim(text) ==
  CASE text = " ok " -> "ok"
    [] text = "summary:  ok " -> "summary:  ok"
    [] text = "Result: " -> "Result:"
    [] OTHER -> text

\* parseTasksRemaining: parseInt(val, 10), NaN giving null
parseTasksRemaining(val) ==
  CASE val = Undefined -> NotNum
    [] val = "0" -> Num(0)
    [] val = "5" -> Num(5)
    [] val = "12" -> Num(12)
    [] val = "12abc" -> Num(12)
    [] OTHER -> NotNum

\* The loop over STATUS_FIELD_REGEX = /^\s*(\w+)\s*:\s*(.+)$/gm on the block:
\* \s also matches a line break, so after a key with nothing behind its colon
\* the value is taken from the next line, which is consumed with it; the
\* sentinel itself has the shape of such a key
RECURSIVE ScanFields(_, _, _)
ScanFields(block, i, fields) ==
  IF i > Len(block) THEN fields
  ELSE IF block[i].kind \notin {"field", "sentinel"} THEN ScanFields(block, i + 1, fields)
  ELSE IF block[i].value # "" THEN
    ScanFields(block, i + 1,
               [fields EXCEPT ![toLowerCase(block[i].key)] = Trim(block[i].value)])
  ELSE IF i < Len(block) THEN
    ScanFields(block, i + 2,
               [fields EXCEPT ![toLowerCase(block[i].key)] = Trim(block[i + 1].raw)])
  ELSE ScanFields(block, i + 1, fields)

\* parseCloudForgeStatus on a text of lines; eol: the text ends with a line
\* break. CLOUDFORGE_STATUS_REGEX wants a line break behind the sentinel,
\* skips blank lines after it and ends the block at the next blank line
parseStatusText(lines, eol) ==
  LET n == Len(lines)
      sentinels == { i \in 1..n : lines[i].kind = "sentinel" /\ (i < n \/ eol) }
      StatusKeys == {"phase", "result", "tasks_remaining", "tasksremaining", "summary",
                     "cloudforge_status"}
      Or(x, y) == IF x = Undefined \/ x = "" THEN y ELSE x   \* x || y
  IN IF sentinels = {} THEN [present |-> FALSE]
     ELSE
       LET first == CHOOSE i \in sentinels : \A j \in sentinels : i <= j
           filled == { j \in (first + 1)..n : lines[j].kind # "blank" }
           start == IF filled = {} THEN n + 1
                    ELSE CHOOSE j \in filled : \A k \in filled : j <= k
           blanks == { j \in start..n : lines[j].kind = "blank" }
           end == IF blanks = {} THEN n
                  ELSE (CHOOSE j \in blanks : \A k \in blanks : j <= k) - 1
           fields == ScanFields(SubSeq(lines, start, end), 1,
                                [k \in StatusKeys |-> Undefined])
       IN [present |-> TRUE,
           phase |-> Or(fields.phase, Null),
           result |-> toUpperCase(Or(fields.result, "DONE")),
           tasksRemaining |->
             parseTasksRemaining(Or(fields.tasks_remaining, fields.tasksremaining)),
           summary |-> Or(fields.summary, "")]

\* The block of a status as the format describes it: the sentinel line, one
\* `key: value` line for each field that has a value, a blank line
render(status) ==
  LET ToDecimal(n) == CASE n = 0 -> "0" [] n = 5 -> "5" [] OTHER -> "12" IN
  << StatusLine("sentinel", "CLOUDFORGE_STATUS", "") >>
  \o (IF status.phase = Null THEN << >>
      ELSE << StatusLine("field", "phase", status.phase) >>)
  \o << StatusLine("field", "result", status.result) >>
  \o (IF ~status.tasksRemaining.num THEN << >>
      ELSE << StatusLine("field", "tasks_remaining", ToDecimal(status.tasksRemaining.v)) >>)
  \o (IF status.summary = "" THEN << >>
      ELSE << StatusLine("field", "summary", status.summary) >>)
  \o << StatusLine("blank", "", "") >>

\* Outputs of up to MaxStatusLines lines, with and without a final line break
StatusCalls ==
  LET alphabet ==
        { StatusLine("sentinel", "CLOUDFORGE_STATUS", ""),
          StatusLine("blank", "", ""),
          StatusLine("text", "", "All done"),
          StatusLine("field", "result", "done"),
          StatusLine("field", "Result", ""),
          StatusLine("field", "tasks_remaining", "5"),
          StatusLine("field", "TASKSREMAINING", "TBD"),
          StatusLine("field", "summary", " ok ") }
      RECURSIVE Outputs(_)
      Outputs(n) ==
        IF n = 0 THEN { << >> }
        ELSE Outputs(n - 1) \cup
             { Append(f, l) : f \in { g \in Outputs(n - 1) : Len(g) = n - 1 },
                              l \in alphabet }
  IN
  { [fn |-> "parseCloudForgeStatus", done |-> FALSE, result |-> Null, again |-> Null,
     lines |-> o, eol |-> e] : o \in Outputs(MaxStatusLines), e \in BOOLEAN }

\* phases.parseCloudForgeStatus(output), and the parse of the rendering of its result
ApplyParseStatus ==
  /\ call.fn = "parseCloudForgeStatus"
  /\ ~call.done
  /\ LET status == parseStatusText(call.lines, call.eol) IN
     call' = [call EXCEPT !.done = TRUE,
                          !.result = status,
                          !.again = IF status.present
                                    THEN parseStatusText(render(status), TRUE)
                                    ELSE status]
  /\ UNCHANGED << args, wfState, disk, currentPhase, phaseRetryCount, rateLimitAttempt, pc,
                  exitCode, haltReason, activeProcess, shuttingDown, waitTime, launch,
                  spawned, phaseSpawns, throttled, retryBacks, onlyNoStatus, kind,
                  startIteration, sigterm, planHeadings, resume, returned, env, workflow >>

InitStatus ==
  /\ workflow = "production"
  /\ env = NoEnv
  /\ call \in StatusCalls
  /\ Parked("call")

SpecStatus == InitStatus /\ [][ApplyParseStatus]_vars

InitCalls ==
  /\ workflow = "production"
  /\ env = NoEnv
  /\ call \in GetNextPhaseCalls \cup RecoverCalls \cup RepairCalls \cup DetectCalls
              \cup WaitCalls
  /\ Parked("call")

\* phases.getNextPhase(currentPhase, status, context)
ApplyGetNextPhase ==
  /\ call.fn = "getNextPhase"
  /\ ~call.done
  /\ call' = [call EXCEPT !.done = TRUE,
                          !.result = getNextPhase(call.currentPhase, call.status,
                                                  call.subTaskNumber, call.totalSubTasks,
                                                  call.retryCount, call.maxRetries)]
  /\ UNCHANGED << args, wfState, disk, currentPhase, phaseRetryCount, rateLimitAttempt, pc,
                  exitCode, haltReason, activeProcess, shuttingDown, waitTime, launch,
                  spawned, phaseSpawns, throttled, retryBacks, onlyNoStatus, kind,
                  startIteration, sigterm, planHeadings, resume, returned, env, workflow >>

\* state.recoverStateFromArtifacts(workingDir, orderedPhaseNames, options), a task inferred
ApplyRecover ==
  /\ call.fn = "recoverStateFromArtifacts"
  /\ ~call.done
  /\ call' = [call EXCEPT !.done = TRUE,
                          !.result = recoverStateFromArtifacts(
                                       "task", call.files, call.planCount,
                                       call.orderedPhaseNames, args.maxIterations,
                                       args.maxPhaseRetries)]
  /\ UNCHANGED << args, wfState, disk, currentPhase, phaseRetryCount, rateLimitAttempt, pc,
                  exitCode, haltReason, activeProcess, shuttingDown, waitTime, launch,
                  spawned, phaseSpawns, throttled, retryBacks, onlyNoStatus, kind,
                  startIteration, sigterm, planHeadings, resume, returned, env, workflow >>

\* state.repairState(wfState, orderedPhaseNames), and its result repaired again
ApplyRepair ==
  /\ call.fn = "repairState"
  /\ ~call.done
  /\ LET once == repairState(call.state, call.orderedPhaseNames) IN
     call' = [call EXCEPT !.done = TRUE,
                          !.result = once,
                          !.again = repairState(once, call.orderedPhaseNames)]
  /\ UNCHANGED << args, wfState, disk, currentPhase, phaseRetryCount, rateLimitAttempt, pc,
                  exitCode, haltReason, activeProcess, shuttingDown, waitTime, launch,
                  spawned, phaseSpawns, throttled, retryBacks, onlyNoStatus, kind,
                  startIteration, sigterm, planHeadings, resume, returned, env, workflow >>

\* ratelimit.detectRateLimit(exitCode, stderr, output)
ApplyDetect ==
  /\ call.fn = "detectRateLimit"
  /\ ~call.done
  /\ call' = [call EXCEPT !.done = TRUE,
                          !.result = detectRateLimit(call.exitCode, call.stderr, call.output)]
  /\ UNCHANGED << args, wfState, disk, currentPhase, phaseRetryCount, rateLimitAttempt, pc,
                  exitCode, haltReason, activeProcess, shuttingDown, waitTime, launch,
                  spawned, phaseSpawns, throttled, retryBacks, onlyNoStatus, kind,
                  startIteration, sigterm, planHeadings, resume, returned, env, workflow >>

\* The seconds main() waits before it repeats the invocation that gave call.r
ApplyWait ==
  /\ call.fn = "wait"
  /\ ~call.done
  /\ call' = [call EXCEPT !.done = TRUE,
                          !.result = WaitFor(call.r, call.attempt, call.rateLimitWait)]
  /\ UNCHANGED << args, wfState, disk, currentPhase, phaseRetryCount, rateLimitAttempt, pc,
                  exitCode, haltReason, activeProcess, shuttingDown, waitTime, launch,
                  spawned, phaseSpawns, throttled, retryBacks, onlyNoStatus, kind,
                  startIteration, sigterm, planHeadings, resume, returned, env, workflow >>

NextCalls ==
  \/ ApplyGetNextPhase
  \/ ApplyRecover
  \/ ApplyRepair
  \/ ApplyDetect
  \/ ApplyWait

SpecCalls == InitCalls /\ [][NextCalls]_vars

\* ------------------------------------------------------------------------
\* runner.runAgent: the child, its two pipes and the handlers of the runner
\* ------------------------------------------------------------------------

MaxStdout == 3   \* lines the child writes to stdout
MaxStderr == 2   \* chunks the child writes to stderr

\* A line stands for what it adds to the output (raw text or an event's
\* text), a chunk for its text; they are numbered in the order written
\* noise: whether what the child writes to stderr matches a rate-limit pattern.
\* A child that cannot be spawned writes nothing
RunCalls ==
  { c \in { [fn |-> "runAgent", spawns |-> sp, code |-> x, lines |-> n, chunks |-> m,
             noise |-> z,
             outLeft |-> [i \in 1..n |-> i], errLeft |-> [i \in 1..m |-> i],
             outPipe |-> << >>, errPipe |-> << >>, exited |-> FALSE,
             outEnded |-> FALSE, errEnded |-> FALSE,
             fullOutput |-> << >>, stderrBuf |-> << >>,
             errored |-> FALSE, closed |-> FALSE,
             done |-> FALSE, result |-> Null] :
               sp \in BOOLEAN, x \in {0, 1}, n \in 0..MaxStdout, m \in 0..MaxStderr,
               z \in BOOLEAN } :
      /\ c.spawns \/ (c.lines = 0 /\ c.chunks = 0 /\ c.code = 1)
      /\ c.noise => c.chunks > 0 }

InitRunner ==
  /\ workflow = "production"
  /\ env = NoEnv
  /\ call \in RunCalls
  /\ ~call.noise
  /\ Parked("call")

RunnerStep(next) ==
  /\ call.fn = "runAgent"
  /\ call' = next
  /\ UNCHANGED << args, wfState, disk, currentPhase, phaseRetryCount, rateLimitAttempt, pc,
                  exitCode, haltReason, activeProcess, shuttingDown, waitTime, launch,
                  spawned, phaseSpawns, throttled, retryBacks, onlyNoStatus, kind,
                  startIteration, sigterm, planHeadings, resume, returned, env, workflow >>

\* The child writes its next line to stdout
ChildWritesStdout ==
  /\ call.spawns /\ ~call.exited /\ call.outLeft # << >>
  /\ RunnerStep([call EXCEPT !.outLeft = Tail(@),
                             !.outPipe = Append(@, Head(call.outLeft))])

\* The child writes its next chunk to stderr
ChildWritesStderr ==
  /\ call.spawns /\ ~call.exited /\ call.errLeft # << >>
  /\ RunnerStep([call EXCEPT !.errLeft = Tail(@),
                             !.errPipe = Append(@, Head(call.errLeft))])

\* The child exits, having written all it had to write
ChildExits ==
  /\ call.spawns /\ ~call.exited /\ call.outLeft = << >> /\ call.errLeft = << >>
  /\ RunnerStep([call EXCEPT !.exited = TRUE])

\* runner.js 64-107: rl.on('line')
OnLine ==
  /\ call.spawns /\ ~call.outEnded /\ call.outPipe # << >>
  /\ RunnerStep([call EXCEPT !.outPipe = Tail(@),
                             !.fullOutput = Append(@, Head(call.outPipe))])

\* runner.js 110-117: proc.stderr.on('data')
OnStderrData ==
  /\ call.spawns /\ ~call.errEnded /\ call.errPipe # << >>
  /\ RunnerStep([call EXCEPT !.errPipe = Tail(@),
                             !.stderrBuf = Append(@, Head(call.errPipe))])

\* End of file on stdout: the writer is gone and the pipe is read empty
StdoutEnds ==
  /\ call.spawns /\ call.exited /\ call.outPipe = << >> /\ ~call.outEnded
  /\ RunnerStep([call EXCEPT !.outEnded = TRUE])

\* End of file on stderr
StderrEnds ==
  /\ call.spawns /\ call.exited /\ call.errPipe = << >> /\ ~call.errEnded
  /\ RunnerStep([call EXCEPT !.errEnded = TRUE])

ExitReady(c) == c.exited

\* When the 'close' event of the child process is emitted: the process has
\* ended and its stdio streams are closed
CloseReady(c) == c.exited /\ c.outEnded /\ c.errEnded

ResolveAgain(c, result) == [c EXCEPT !.done = TRUE, !.result = result]

\* runner.js 32, 126, 139: resolve() of the promise; only the first call settles it
Resolve(c, result) ==
  IF c.done THEN c ELSE [c EXCEPT !.done = TRUE, !.result = result]

\* runner.js 117-135: proc.on('close') resolves the promise. After a failed
\* spawn 'close' follows 'error'
OnClose ==
  /\ ~call.closed
  /\ IF call.spawns THEN CloseReady(call) ELSE call.errored
  /\ RunnerStep(Resolve([call EXCEPT !.closed = TRUE],
                        [success |-> call.code = 0, exitCode |-> call.code,
                         output |-> call.fullOutput, stderr |-> call.stderrBuf]))

\* runner.js 137-148: proc.on('error') for a child that could not be spawned
OnError ==
  /\ ~call.spawns /\ ~call.errored
  /\ RunnerStep(Resolve([call EXCEPT !.errored = TRUE],
                        [success |-> FALSE, exitCode |-> -1,
                         output |-> call.fullOutput, stderr |-> << "error" >>]))

NextRunner ==
  \/ ChildWritesStdout
  \/ ChildWritesStderr
  \/ ChildExits
  \/ OnLine
  \/ OnStderrData
  \/ StdoutEnds
  \/ StderrEnds
  \/ OnClose
  \/ OnError

SpecRunner == InitRunner /\ [][NextRunner]_vars

\* ---- the phase loop with the runner in place of a repertoire ----

\* The result as main() reads it: its exit code, whether the output is empty
\* (plain lines carry no status block), and what the detectors see in stderr
FromRunner(c) ==
  AgentResult(c.result.exitCode,
              Output(c.result.output = << >>, FALSE, "", "", Quiet),
              IF c.noise /\ c.result.stderr # << >> THEN Text(TRUE, FALSE, 0) ELSE Quiet,
              Null)

InitInvoke ==
  /\ workflow = "production"
  /\ env = NoEnv
  /\ call \in RunCalls
  /\ Parked("loop")

\* forge.js 271-281: `await runner.runAgent(...)` continues once the promise is settled
Settle ==
  /\ call.fn = "runAgent"
  /\ call.done
  /\ AgentExit(FromRunner(call), -1)

NextInvoke ==
  \/ LoopTop
  \/ NextRunner
  \/ Settle
  \/ WaitDone

SpecInvoke == InitInvoke /\ [][NextInvoke]_vars

\* ------------------------------------------------------------------------
\* The operations on the workflow state, called in any order on a created state
\* ------------------------------------------------------------------------

MaxRecords == 2   \* recordIteration calls
MaxTracks == 6    \* trackRetry calls

InitOps ==
  /\ workflow = "production"
  /\ env = NoEnv
  /\ call = [fn |-> "ops", records |-> 0, tracks |-> 0, op |-> "none",
             status |-> NoStatus, tokens |-> NoTokens, errorMsg |-> ""]
  /\ Parked("ops")

OpsStep(state, next) ==
  /\ call.fn = "ops"
  /\ wfState' = state
  /\ call' = next
  /\ UNCHANGED << args, disk, currentPhase, phaseRetryCount, rateLimitAttempt, pc,
                  exitCode, haltReason, activeProcess, shuttingDown, waitTime, launch,
                  spawned, phaseSpawns, throttled, retryBacks, onlyNoStatus, kind,
                  startIteration, sigterm, planHeadings, resume, returned, env, workflow >>

\* state.recordIteration(state, phase, result, tokens)
OpRecord ==
  /\ call.records < MaxRecords
  /\ \E status \in {NoStatus, Status("DONE", "ok"), Status("NEEDS_RETRY", "e1")},
        tokens \in {NoTokens, Tokens(2, 1)} :
       OpsStep(recordIteration(wfState, "VERIFY", status, tokens),
               [call EXCEPT !.records = @ + 1, !.op = "recordIteration",
                            !.status = status, !.tokens = tokens])

\* state.trackRetry(state, phase, errorMsg); "" stands for no message
OpTrack ==
  /\ call.tracks < MaxTracks
  /\ \E errorMsg \in {"", "e1", "e2"} :
       OpsStep(trackRetry(wfState, "VERIFY", errorMsg),
               [call EXCEPT !.tracks = @ + 1, !.op = "trackRetry", !.errorMsg = errorMsg])

SpecOps == InitOps /\ [][OpRecord \/ OpTrack]_vars

\* ------------------------------------------------------------------------
\* The launch: which state main() starts the loop with
\* ------------------------------------------------------------------------

\* state.json as an earlier run left it
SavedFile ==
  StateFile("GATE_QUALITY", Num(0), Num(MaxRemaining), Num(1), Num(1),
            Arr(SubSeq(getOrderedPhaseNames, 1, 15)))

\* state.json by its content: no file, not JSON (with or without a readable
\* "task": "..." in it), JSON without a task, JSON with an empty task, a sound file
Content(file) ==
  CASE file = "notask" -> [SavedFile EXCEPT !.task = Undefined]
    [] file = "emptytask" -> [SavedFile EXCEPT !.task = ""]
    [] OTHER -> SavedFile

\* What a launch finds: the command line (--continue-session, a task), the
\* .cloudforge directory, state.json, the artifacts and whether they carry a
\* first heading
\* What a function that may return null, or throw, hands back
NoState == [found |-> FALSE]
Thrown == [found |-> FALSE, thrown |-> TRUE]
Found(state) == [found |-> TRUE, v |-> state]

\* JavaScript's !task: a missing, null or empty task
NoTask(task) == task \in {Undefined, Null, ""}

\* state.loadState: null without the file, JSON.parse throws on a file that is
\* not JSON
loadState(e) ==
  IF ~e.dir \/ e.file = "absent" THEN NoState
  ELSE IF e.file \in {"invalid", "invalid_task"} THEN Thrown
  ELSE Found(Content(e.file))

\* state.tryLoadState: null for no file, a file that is not JSON, a missing or
\* empty task
tryLoadState(e) ==
  IF ~e.dir \/ e.file = "absent" THEN NoState
  ELSE IF e.file \in {"invalid", "invalid_task"} THEN NoState
  ELSE IF NoTask(Content(e.file).task) THEN NoState
  ELSE Found(Content(e.file))

\* state.inferTaskFromArtifacts: the task pattern in state.json, else the first
\* heading of requirements.md, stories.md or the first prd file
inferTaskFromArtifacts(e) ==
  IF ~e.dir THEN Null
  ELSE IF e.file \in {"invalid_task", "valid"} THEN "task"
  ELSE IF e.headings /\ e.artifacts.files \cap {"requirements.md", "stories.md", "prd"} # {}
  THEN "heading"
  ELSE Null

\* state.recoverStateFromArtifacts as main() calls it: null when no task is inferred
Recover(e, a) ==
  LET task == inferTaskFromArtifacts(e) IN
  IF NoTask(task) THEN NoState
  ELSE Found(recoverStateFromArtifacts(task, e.artifacts.files, e.artifacts.planCount,
                                       getOrderedPhaseNames, a.maxIterations,
                                       a.maxPhaseRetries))

\* forge.js 139-188: the state and the outcome of the launch
Launched(e, a) ==
  IF Truthy(e.continueSession) THEN
    LET loaded == loadState(e) IN
    IF loaded = Thrown THEN [ok |-> FALSE, code |-> 1, reason |-> "fatal"]
    ELSE IF ~loaded.found THEN [ok |-> FALSE, code |-> 1, reason |-> "no_saved_state"]
    ELSE [ok |-> TRUE, how |-> "loaded",
          state |-> FromJson(repairState(loaded.v, getOrderedPhaseNames))]
  ELSE IF Truthy(e.task) THEN
    [ok |-> TRUE, how |-> "fresh",
     state |-> createInitialState(e.task, a.maxIterations, a.maxPhaseRetries, getFirstPhase)]
  ELSE IF e.dir THEN
    LET loaded == tryLoadState(e) IN
    IF loaded.found
    THEN [ok |-> TRUE, how |-> "loaded",
          state |-> FromJson(repairState(loaded.v, getOrderedPhaseNames))]
    ELSE IF ~Recover(e, a).found THEN [ok |-> FALSE, code |-> 1, reason |-> "usage"]
    ELSE [ok |-> TRUE, how |-> "recovered", state |-> Recover(e, a).v]
  ELSE [ok |-> FALSE, code |-> 1, reason |-> "usage"]

InitLaunch ==
  /\ workflow = "production"
  /\ call = NoCall
  /\ env \in
       { [mode |-> "launch", continueSession |-> c, task |-> t, dir |-> d, file |-> f,
          headings |-> h, artifacts |-> a] :
           c \in {Null, "id"}, t \in {Null, "task"}, d \in BOOLEAN, h \in BOOLEAN,
           f \in {"absent", "invalid", "invalid_task", "notask", "emptytask", "valid"},
           a \in ArtifactDirs }
  /\ ~env.dir => env.file = "absent" /\ ~env.headings
  /\ Parked("launch")

\* forge.js 126-188 and 413-419: main() up to the phase loop, or to its return
\* or rejection
Launch ==
  /\ pc = "launch"
  /\ LET out == Launched(env, args) IN
     IF out.ok THEN
       /\ wfState' = out.state
       /\ launch' = out.how
       /\ currentPhase' = out.state.phase
       /\ startIteration' = out.state.iteration
       /\ pc' = "loop"
       /\ UNCHANGED << exitCode, haltReason >>
     ELSE
       /\ Exit(out.code, out.reason)
       /\ UNCHANGED << wfState, launch, currentPhase, startIteration >>
  /\ UNCHANGED << args, disk, phaseRetryCount, rateLimitAttempt, activeProcess, shuttingDown,
                  waitTime, spawned, phaseSpawns, throttled, retryBacks, onlyNoStatus, kind,
                  sigterm, planHeadings, resume, returned, env, call, workflow >>

SpecLaunch == InitLaunch /\ [][Launch]_vars

\* ------------------------------------------------------------------------
\* Fresh runs on each workflow file: none of whose lines is a transition, the
\* five-phase one, the production one
\* ------------------------------------------------------------------------

InitWorkflows ==
  /\ workflow \in {"empty", "happy", "production"}
  /\ env = NoEnv
  /\ call = NoCall
  /\ args = Args(MaxRemaining, DefaultMaxPhaseRetries, DefaultRateLimitWait)
  /\ kind \in {"verdicts", "throttled"}
  /\ launch = "fresh"
  /\ wfState \in FreshStates(args)
  /\ disk = NoDisk
  /\ currentPhase = wfState.phase
  /\ startIteration = wfState.iteration
  /\ Ghost0

SpecWorkflows == InitWorkflows /\ [][Next]_vars

\* ------------------------------------------------------------------------
\* Runs whose child returns one session id, another, or none
\* ------------------------------------------------------------------------

InitSession ==
  /\ workflow = "production"
  /\ env = NoEnv
  /\ call = NoCall
  /\ args = Args(MaxRemaining, DefaultMaxPhaseRetries, DefaultRateLimitWait)
  /\ kind = "sessions"
  /\ launch \in {"fresh", "loaded"}
  /\ wfState \in IF launch = "fresh" THEN FreshStates(args) ELSE LoadedStates
  /\ wfState.maxIterations - wfState.iteration <= MaxRemaining
  /\ disk = NoDisk
  /\ currentPhase = wfState.phase
  /\ startIteration = wfState.iteration
  /\ Ghost0

SpecSession == InitSession /\ [][Next]_vars

\* ------------------------------------------------------------------------
\* Runs resumed at PLAN, with every plan.md the scheduler may find
\* ------------------------------------------------------------------------

InitPlan ==
  /\ workflow = "production"
  /\ env = NoEnv
  /\ call = NoCall
  /\ args = Args(MaxRemaining, DefaultMaxPhaseRetries, DefaultRateLimitWait)
  /\ kind \in {"verdicts", "odd", "silent", "throttled"}
  /\ launch = "loaded"
  /\ wfState \in { st \in LoadedStates : st.phase = "PLAN" }
  /\ disk = NoDisk
  /\ currentPhase = wfState.phase
  /\ startIteration = wfState.iteration
  /\ Ghost0

NextPlan ==
  \/ LoopTop
  \/ \E r \in Repertoire(kind) :
       \E planCount \in (IF currentPhase = "PLAN" THEN PlanFiles ELSE {-1}) :
         AgentExit(r, planCount)
  \/ WaitDone
  \/ Sigint

SpecPlan == InitPlan /\ [][NextPlan]_vars

\* ------------------------------------------------------------------------
\* A run of the loop, then a second launch in the same working directory
\* ------------------------------------------------------------------------

InitRelaunch ==
  /\ workflow = "production"
  /\ env = NoEnv
  /\ call = NoCall
  /\ args \in { Args(mi, DefaultMaxPhaseRetries, DefaultRateLimitWait) :
                  mi \in {-1, 2, MaxRemaining} }
  /\ kind \in {"verdicts", "throttled"}
  /\ launch \in {"fresh", "loaded"}
  /\ Explored(args, kind, launch)
  /\ wfState \in IF launch = "fresh" THEN FreshStates(args)
                 ELSE { st \in LoadedStates : st.phase \in {"GATE_QUALITY", "INNOVATE"} }
  /\ disk = NoDisk
  /\ currentPhase = wfState.phase
  /\ startIteration = wfState.iteration
  /\ Ghost0

\* forge.js 139-167 and 211-212 in a later launch: --continue-session, or no
\* argument at all, loads the state.json the earlier run saved and repairs it;
\* the command line's iteration cap is read by neither
Relaunch ==
  /\ pc = "exited"
  /\ env = NoEnv
  /\ disk.saved
  /\ \E mi \in {-1, 2, MaxRemaining}, continueSession \in BOOLEAN :
       /\ args' = Args(mi, DefaultMaxPhaseRetries, DefaultRateLimitWait)
       /\ env' = [mode |-> "relaunched", continueSession |-> continueSession,
                  after |-> haltReason]
  /\ wfState' = FromJson(repairState(ToJson(disk.state), getOrderedPhaseNames))
  /\ launch' = "loaded"
  /\ currentPhase' = wfState'.phase
  /\ startIteration' = wfState'.iteration
  /\ pc' = "loop"
  /\ exitCode' = -1
  /\ haltReason' = Null
  /\ activeProcess' = FALSE
  /\ shuttingDown' = FALSE
  /\ sigterm' = FALSE
  /\ planHeadings' = -1
  /\ resume' = Null
  /\ waitTime' = 0
  /\ spawned' = 0
  /\ phaseSpawns' = 0
  /\ throttled' = 0
  /\ retryBacks' = [p \in ExhaustiblePhases |-> 0]
  /\ onlyNoStatus' = TRUE
  /\ phaseRetryCount' = 0
  /\ rateLimitAttempt' = 0
  /\ UNCHANGED << disk, kind, returned, call, workflow >>

\* The second launch is followed for MaxRemaining iterations at most
NextRelaunch ==
  \/ wfState.iteration - startIteration <= MaxRemaining /\ LoopTop
  \/ \E r \in Repertoire(kind) :
       \E planCount \in (IF currentPhase = "PLAN" THEN PlanInputs ELSE {-1}) :
         AgentExit(r, planCount)
  \/ WaitDone
  \/ Sigint
  \/ Relaunch

SpecRelaunch == InitRelaunch /\ [][NextRelaunch]_vars

\* ------------------------------------------------------------------------
\* Runs whose child always reports DONE
\* ------------------------------------------------------------------------

ArgIterations == 100   \* parseArgs: the iteration cap when --max-iterations is not given

\* A launch with the default command line, on the five-phase workflow or on
\* the production workflow (there also from the artifacts of an earlier run)
InitDone ==
  /\ workflow \in {"happy", "production"}
  /\ env = NoEnv
  /\ call = NoCall
  /\ args = Args(ArgIterations, DefaultMaxPhaseRetries, DefaultRateLimitWait)
  /\ kind = "done"
  /\ launch \in {"fresh", "recovered"}
  /\ workflow = "happy" => launch = "fresh"
  /\ wfState \in IF launch = "fresh" THEN FreshStates(args) ELSE RecoveredStates(args)
  /\ disk = NoDisk
  /\ currentPhase = wfState.phase
  /\ startIteration = wfState.iteration
  /\ Ghost0

NextDone ==
  \/ LoopTop
  \/ \E planCount \in (IF currentPhase = "PLAN" THEN PlanFiles ELSE {-1}) :
       AgentExit(Done, planCount)
  \/ Sigint

SpecDone == InitDone /\ [][NextDone]_vars

\* The loop runs on and the child always exits; SIGINT is not forced
SpecDoneFair ==
  /\ SpecDone
  /\ WF_vars(LoopTop)
  /\ WF_vars(\E planCount \in PlanFiles : AgentExit(Done, planCount))

\* The child always exits and the countdown always ends: the two promises main
\* awaits are resolved, and the loop itself runs on
\* (runs given the default per-phase retry cap)
InitFair == Init /\ args.maxPhaseRetries = DefaultMaxPhaseRetries

SpecFair ==
  /\ InitFair
  /\ [][Next]_vars
  /\ WF_vars(LoopTop)
  /\ WF_vars(\E r \in Repertoire(kind) : \E planCount \in PlanFiles : AgentExit(r, planCount))
  /\ WF_vars(WaitDone)

\* ------------------------------------------------------------------------
\* Properties
\* ------------------------------------------------------------------------

\* C1: in every state the scheduler operates on (fresh, recovered, or loaded
\* and repaired) and after any sequence of phase iterations,
\* iteration <= maxIterations.
C1_IterationWithinCap == wfState.iteration <= wfState.maxIterations

\* C2: every run of the phase loop eventually terminates, whatever the child
\* answers, as long as every child exits and every countdown ends; what stops
\* the innovation loop and the gate loops is the iteration cap: the counter
\* never passes the cap (or the value it was loaded with, if that is larger),
\* and an iteration takes at most maxRateLimitAttempts invocations.
C2_Terminates ==
  /\ <>(pc = "exited")
  /\ [](wfState.iteration <= IF startIteration > wfState.maxIterations
                             THEN startIteration ELSE wfState.maxIterations)
  /\ [](spawned <= maxRateLimitAttempts * (wfState.iteration - startIteration + 1))

\* C2 witness: a run that went round the innovation loop (INNOVATE answered
\* NEEDS_RETRY, DISCOVER ran again) and was stopped by the iteration cap
C2_Witness ==
  /\ pc = "exited"
  /\ haltReason = "max_iterations"
  /\ \E i \in 1..Len(wfState.history) : \E j \in 1..Len(wfState.history) :
       /\ i < j
       /\ wfState.history[i].phase = "INNOVATE"
       /\ wfState.history[i].result = "NEEDS_RETRY"
       /\ wfState.history[j].phase = "DISCOVER"

\* C3: in every reachable state with totalSubTasks > 0,
\* currentSubTask <= totalSubTasks.
C3_CursorWithinTotal ==
  wfState.totalSubTasks > 0 => wfState.currentSubTask <= wfState.totalSubTasks

\* C4: a phase with a retry transition to another phase and a retry_exhausted
\* transition cannot send the workflow back through its retry transition more
\* than maxPhaseRetries times.
C4_GateRetriesBounded ==
  \A p \in ExhaustiblePhases : retryBacks[p] <= args.maxPhaseRetries

\* C5: when every child exits 0 without a status block, each invocation is
\* recorded as an iteration with the synthesized NEEDS_RETRY status, and no
\* retry breaker halts the run before the phase has been retried
\* maxPhaseRetries times, for every configured maxPhaseRetries.
C5_RetriedUpToCap ==
  (onlyNoStatus /\ spawned > 0) =>
    /\ \A i \in 1..Len(wfState.history) :
         /\ wfState.history[i].result = "NEEDS_RETRY"
         /\ wfState.history[i].summary = NoBlockSummary
    /\ (pc = "exited" /\ haltReason \in {"consecutive_retries", "repeated_errors"})
         => phaseRetryCount >= args.maxPhaseRetries

\* C6 as stated: at the top of the loop in a phase that retries itself and has
\* no retry_exhausted transition, three consecutive NEEDS_RETRY results of this
\* run make the breaker halt before a fourth invocation, with the
\* consecutive-retries reason, the state saved and exit code 1; after fewer
\* than three NEEDS_RETRY followed by DONE the loop never halts and
\* consecutiveRetries is 0.
C6_ThreeRetriesHaltAsStated ==
  [][ LET h == wfState.history
          n == Len(h)
          inRun == wfState.iteration - startIteration
          SelfRetrying(p) ==
            /\ HasPhase(p)
            /\ getPhaseConfig(p).transitions.retry = p
            /\ ~Truthy(getPhaseConfig(p).transitions.retry_exhausted)
      IN pc = "loop" =>
           /\ ( /\ SelfRetrying(currentPhase)
                /\ inRun >= 3
                /\ \A i \in (n - 2)..n :
                     h[i].phase = currentPhase /\ h[i].result = "NEEDS_RETRY" )
              => /\ pc' = "exited"
                 /\ haltReason' = "consecutive_retries"
                 /\ exitCode' = 1
                 /\ disk' = saveState(wfState)
                 /\ spawned' = spawned
           /\ ( /\ inRun >= 2
                /\ SelfRetrying(h[n].phase)
                /\ h[n].result = "DONE"
                /\ h[n - 1].phase = h[n].phase
                /\ h[n - 1].result = "NEEDS_RETRY" )
              => /\ wfState.consecutiveRetries = 0
                 /\ pc' = "running" ]_vars

\* C6 amended: the same, as long as the iteration cap is not reached; at the
\* cap the breaker halts with the max-iterations reason instead, after three
\* NEEDS_RETRY and after a DONE alike (state saved, exit code 1, no invocation).
C6_ThreeRetriesHalt ==
  [][ LET h == wfState.history
          n == Len(h)
          inRun == wfState.iteration - startIteration
          capped == wfState.iteration >= wfState.maxIterations
          SelfRetrying(p) ==
            /\ HasPhase(p)
            /\ getPhaseConfig(p).transitions.retry = p
            /\ ~Truthy(getPhaseConfig(p).transitions.retry_exhausted)
      IN pc = "loop" =>
           /\ ( /\ SelfRetrying(currentPhase)
                /\ inRun >= 3
                /\ \A i \in (n - 2)..n :
                     h[i].phase = currentPhase /\ h[i].result = "NEEDS_RETRY" )
              => /\ pc' = "exited"
                 /\ haltReason' = IF capped THEN "max_iterations" ELSE "consecutive_retries"
                 /\ exitCode' = 1
                 /\ disk' = saveState(wfState)
                 /\ spawned' = spawned
           /\ ( /\ inRun >= 2
                /\ SelfRetrying(h[n].phase)
                /\ h[n].result = "DONE"
                /\ h[n - 1].phase = h[n].phase
                /\ h[n - 1].result = "NEEDS_RETRY" )
              => /\ wfState.consecutiveRetries = 0
                 /\ IF capped
                    THEN /\ pc' = "exited"
                         /\ haltReason' = "max_iterations"
                         /\ exitCode' = 1
                         /\ disk' = saveState(wfState)
                         /\ spawned' = spawned
                    ELSE pc' = "running" ]_vars

\* C6 witness: DISCOVER answered NEEDS_RETRY three times running, below the
\* iteration cap, and the consecutive-retries breaker halted the run
C6_Witness ==
  /\ pc = "exited"
  /\ haltReason = "consecutive_retries"
  /\ exitCode = 1
  /\ spawned = 3
  /\ wfState.iteration < wfState.maxIterations
  /\ Len(wfState.history) >= 3
  /\ \A i \in (Len(wfState.history) - 2)..Len(wfState.history) :
       wfState.history[i].phase = "DISCOVER" /\ wfState.history[i].result = "NEEDS_RETRY"

\* C7: the number of child processes spawned in a run never exceeds
\* maxIterations, repeated invocations after a wait included.
C7_SpawnsWithinCap == spawned > 0 => spawned <= wfState.maxIterations

\* C8: an invocation classified rate-limited or transient is waited on and
\* repeated without recording an iteration: iteration and history grow by
\* exactly one in the step that completes a phase execution, whatever the
\* number of waited attempts before it, and by nothing in any other step (the
\* attempts-exhausted halt included).
C8_WaitedAttemptsNotRecorded ==
  [][ LET completes == /\ pc = "running"
                       /\ \/ pc' = "loop"
                          \/ pc' = "exited" /\ haltReason' = "finished"
      IN /\ wfState'.iteration - wfState.iteration = IF completes THEN 1 ELSE 0
         /\ Len(wfState'.history) - Len(wfState.history) = IF completes THEN 1 ELSE 0
         /\ haltReason' = "attempts_exhausted" => wfState' = wfState ]_vars

\* C8 witness: a phase execution completed after two waited attempts, and the
\* run has recorded one iteration for its three invocations
C8_Witness ==
  /\ pc = "loop"
  /\ rateLimitAttempt = 2
  /\ spawned = 3
  /\ wfState.iteration = startIteration + 1
  /\ Len(wfState.history) = 1

\* C9: within one phase execution the child is invoked at most 5 times; the
\* rate-limit and transient classifications share one attempt counter, which
\* only increases during the execution (every invocation but the first follows
\* one increment); when the 5th invocation is classified rate-limited or
\* transient too, the state is saved and the run exits with code 1 without a
\* 6th invocation.
C9_AttemptsBounded ==
  /\ [](phaseSpawns <= 5)
  /\ [](pc \in {"running", "waiting"} => phaseSpawns = rateLimitAttempt + 1)
  /\ [](haltReason = "attempts_exhausted" =>
          /\ exitCode = 1
          /\ disk = saveState(wfState)
          /\ phaseSpawns = 5
          /\ rateLimitAttempt = 5)
  /\ [][pc # "loop" => rateLimitAttempt' >= rateLimitAttempt]_vars
  /\ [][(pc = "waiting" /\ phaseSpawns = 5 /\ ~shuttingDown') =>
          /\ pc' = "exited"
          /\ haltReason' = "attempts_exhausted"
          /\ spawned' = spawned]_vars

\* C9 witness: the fifth invocation of a phase execution was waited on as
\* well and the run halted
C9_Witness ==
  /\ pc = "exited"
  /\ haltReason = "attempts_exhausted"
  /\ phaseSpawns = 5
  /\ exitCode = 1

\* C10: no rate-limit wait is longer than the configured maximum
\* (--rate-limit-wait): the seconds slept are <= args.rateLimitWait for every
\* retry-after hint and attempt number.
C10_WaitWithinMaximum == pc = "waiting" => waitTime <= args.rateLimitWait

\* C11: when the scheduler moves to a phase different from the one just
\* executed, consecutiveRetries is 0, lastErrors is empty and phaseRetryCount
\* is 0 before the new phase's first invocation; when the next phase is the
\* same phase, the three keep the values the iteration's retry tracking gave
\* them (the ones just saved; phaseRetryCount one more after NEEDS_RETRY, 0
\* after any other result).
C11_ResetOnPhaseChange ==
  [][ (pc = "running" /\ pc' = "loop") =>
        IF currentPhase' # currentPhase
        THEN /\ wfState'.consecutiveRetries = 0
             /\ wfState'.lastErrors = << >>
             /\ phaseRetryCount' = 0
        ELSE /\ wfState'.consecutiveRetries = disk'.state.consecutiveRetries
             /\ wfState'.lastErrors = disk'.state.lastErrors
             /\ phaseRetryCount' =
                  IF wfState'.history[Len(wfState'.history)].result = "NEEDS_RETRY"
                  THEN phaseRetryCount + 1 ELSE 0 ]_vars

\* C11 witness: a gate answered NEEDS_RETRY and sent the workflow to another
\* phase; the state saved holds the retry and its error, the state the loop
\* goes on with holds none
C11_Witness ==
  /\ pc = "loop"
  /\ disk.saved
  /\ disk.state.phase # currentPhase
  /\ disk.state.consecutiveRetries > 0
  /\ Len(disk.state.lastErrors) > 0
  /\ wfState.consecutiveRetries = 0
  /\ wfState.lastErrors = << >>
  /\ phaseRetryCount = 0

\* C12: the state on disk never lags behind the recorded history: as soon as
\* an iteration of this run is recorded the file holds it, so before the next
\* invocation starts; every exit of the phase loop (breaker halt, attempts
\* exhausted, agent crash, normal end, SIGINT) leaves the final state on disk;
\* halts exit with code 1, the normal end and the interrupt with code 0.
C12_DiskKeepsUp ==
  /\ wfState.iteration > startIteration =>
       /\ disk.saved
       /\ disk.state.history = wfState.history
       /\ disk.state.iteration = wfState.iteration
  /\ pc = "exited" =>
       /\ disk.saved
       /\ disk.state = wfState
       /\ haltReason \in {"max_iterations", "consecutive_retries", "repeated_errors",
                          "attempts_exhausted", "agent_failed", "finished", "sigint"}
       /\ exitCode = IF haltReason \in {"finished", "sigint"} THEN 0 ELSE 1

\* C12 witness: the child crashed after an iteration of this run had been
\* recorded, and the run halted with the state saved
C12_Witness ==
  /\ pc = "exited"
  /\ haltReason = "agent_failed"
  /\ exitCode = 1
  /\ wfState.iteration > startIteration
  /\ disk.saved
  /\ disk.state = wfState

\* C13: a first SIGINT, whether a child runs or a countdown is awaited, sets
\* the shutting-down flag, saves the current state, sends SIGTERM to the child
\* if and only if one is running then, and exits with code 0; the tracked
\* handle is non-null exactly while an invocation is in progress, and no
\* SIGTERM is sent otherwise.
C13_Interrupt ==
  /\ [](pc # "exited" => (activeProcess <=> pc = "running"))
  /\ [](sigterm => haltReason = "sigint")
  /\ [][ (pc # "exited" /\ haltReason' = "sigint") =>
           /\ shuttingDown'
           /\ disk'.saved
           /\ disk'.state = wfState
           /\ wfState' = wfState
           /\ sigterm' = (pc = "running")
           /\ pc' = "exited"
           /\ exitCode' = 0 ]_vars

\* C13 witness: the interrupt came while a child ran, after an earlier wait:
\* the child was sent SIGTERM and the state was saved
C13_Witness ==
  /\ pc = "exited"
  /\ haltReason = "sigint"
  /\ sigterm
  /\ rateLimitAttempt > 0
  /\ shuttingDown
  /\ disk.saved
  /\ disk.state = wfState

\* C14: for every phase and every status with result DONE, BLOCKED or
\* NEEDS_RETRY, getNextPhase is the specified state machine: DONE or BLOCKED
\* takes done_next_subtask when the phase has it and
\* subTaskNumber < totalSubTasks, otherwise the done target (null for END);
\* NEEDS_RETRY takes retry_exhausted when the phase has it and
\* retryCount >= maxRetries, otherwise behaves as DONE when the phase has
\* done_next_subtask, otherwise takes the retry target; an unknown phase
\* yields null.
C14_NextPhaseStateMachine ==
  (call.fn = "getNextPhase" /\ call.done
     /\ call.status.present
     /\ call.status.result \in {"DONE", "BLOCKED", "NEEDS_RETRY"}) =>
    LET known == \E i \in 1..Len(loadWorkflow) : loadWorkflow[i].name = call.currentPhase
        t == loadWorkflow[CHOOSE i \in 1..Len(loadWorkflow) :
                            loadWorkflow[i].name = call.currentPhase].transitions
        target(x) == IF x \in {Null, Undefined} THEN Null ELSE x
        has(x) == x \notin {Null, Undefined}
        asDone == IF has(t.done_next_subtask) /\ call.subTaskNumber < call.totalSubTasks
                  THEN t.done_next_subtask
                  ELSE target(t.done)
    IN call.result =
         CASE ~known -> Null
           [] known /\ call.status.result \in {"DONE", "BLOCKED"} -> asDone
           [] known /\ call.status.result = "NEEDS_RETRY"
                /\ has(t.retry_exhausted) /\ call.retryCount >= call.maxRetries
                -> t.retry_exhausted
           [] known /\ call.status.result = "NEEDS_RETRY"
                /\ ~(has(t.retry_exhausted) /\ call.retryCount >= call.maxRetries)
                /\ has(t.done_next_subtask)
                -> asDone
           [] OTHER -> target(t.retry)

\* C14 witness: GATE_SCOPE answered NEEDS_RETRY with the retries used up and
\* the workflow went on to DOMAIN
C14_Witness ==
  /\ call.fn = "getNextPhase"
  /\ call.done
  /\ call.currentPhase = "GATE_SCOPE"
  /\ call.status = Status("NEEDS_RETRY", "s")
  /\ call.retryCount = call.maxRetries
  /\ call.result = "DOMAIN"

\* C15 as stated: for a status whose result is missing or is any value other
\* than DONE, BLOCKED and NEEDS_RETRY, the next phase is the current phase's
\* retry target.
C15_OtherResultRetriesAsStated ==
  (call.fn = "getNextPhase" /\ call.done /\ call.currentPhase # "NOSUCH"
     /\ ~(call.status.present /\ call.status.result \in {"DONE", "BLOCKED", "NEEDS_RETRY"})) =>
    call.result = getPhaseConfig(call.currentPhase).transitions.retry

\* C15 amended: a result that is present and is none of DONE, BLOCKED and
\* NEEDS_RETRY leads to the retry target; a missing status or a missing
\* result counts as DONE.
C15_OtherResultRetries ==
  (call.fn = "getNextPhase" /\ call.done /\ call.currentPhase # "NOSUCH"
     /\ ~(call.status.present /\ call.status.result \in {"DONE", "BLOCKED", "NEEDS_RETRY"})) =>
    LET t == getPhaseConfig(call.currentPhase).transitions
        missing == ~call.status.present \/ call.status.result = ""
    IN call.result =
         IF ~missing THEN t.retry
         ELSE IF t.done_next_subtask # Undefined /\ call.subTaskNumber < call.totalSubTasks
         THEN t.done_next_subtask
         ELSE t.done

\* C15 witness: FAILED at GATE_SCOPE leads to its retry target, whatever the
\* retry count
C15_Witness ==
  /\ call.fn = "getNextPhase"
  /\ call.done
  /\ call.currentPhase = "GATE_SCOPE"
  /\ call.status = Status("FAILED", "s")
  /\ call.retryCount >= call.maxRetries
  /\ call.result = "REQUIREMENTS"

\* C16 as stated: on the workflow A -> B -> *C -> D -> E -> END with a child
\* that always reports DONE, the finished run has made exactly 5 iterations,
\* has completedPhases = [A,B,C,D] and exit code 0.
C16_HappyPathAsStated ==
  (workflow = "happy" /\ pc = "exited" /\ haltReason = "finished") =>
    /\ wfState.iteration = 5
    /\ wfState.completedPhases = << "A", "B", "C", "D" >>
    /\ exitCode = 0

\* C16 amended: the run, unless interrupted, comes to its end after exactly 5
\* iterations, one per phase in the order A, B, C, D, E, with
\* completedPhases = [A,B,C,D,E] (the last phase is marked completed as
\* well) and exit code 0.
C16_HappyPath ==
  /\ workflow = "happy" => <>(pc = "exited")
  /\ []((workflow = "happy" /\ pc = "exited" /\ ~shuttingDown) =>
          /\ haltReason = "finished"
          /\ exitCode = 0
          /\ wfState.iteration = 5
          /\ [i \in 1..5 |-> wfState.history[i].phase] = << "A", "B", "C", "D", "E" >>
          /\ wfState.completedPhases = << "A", "B", "C", "D", "E" >>)
  /\ [](workflow = "happy" => wfState.iteration <= 5)

\* C16 witness: the five-phase run has finished, not interrupted
C16_Witness ==
  /\ workflow = "happy"
  /\ pc = "exited"
  /\ haltReason = "finished"
  /\ Len(wfState.history) = 5
  /\ wfState.history[5].result = "DONE"

\* C17: once PLAN has ended DONE with N >= 1 sub-task headings and every
\* status is DONE, the iterations after PLAN are PROTOTYPE, GATE_DESIGN, then
\* TEST, IMPLEMENT, VERIFY, REFACTOR exactly N times, then INTEGRATE and no
\* task-loop phase again; the k-th pass runs with subTaskNumber = k and
\* totalSubTasks = N.
C17_TaskLoopPerSubTask ==
  (workflow = "production" /\ planHeadings >= 1) =>
    LET h == wfState.history
        N == planHeadings
        ip == CHOOSE i \in 1..Len(h) :
                h[i].phase = "PLAN" /\ \A j \in (i + 1)..Len(h) : h[j].phase # "PLAN"
        after == [i \in 1..(Len(h) - ip) |-> h[ip + i].phase]
        pass == << "TEST", "IMPLEMENT", "VERIFY", "REFACTOR" >>
        expected == << "PROTOTYPE", "GATE_DESIGN" >>
                      \o [i \in 1..(4 * N) |-> pass[((i - 1) % 4) + 1]]
                      \o << "INTEGRATE" >>
        k == ((Len(after) - 2) \div 4) + 1
    IN /\ \A i \in 1..Len(after) :
            IF i <= Len(expected) THEN after[i] = expected[i]
            ELSE ~isTaskLoopPhase(after[i])
       /\ (pc \in {"loop", "running"} /\ Len(after) < Len(expected)) =>
            currentPhase = expected[Len(after) + 1]
       /\ (pc = "running" /\ isTaskLoopPhase(currentPhase)) =>
            /\ k \in 1..N
            /\ wfState.currentSubTask = k
            /\ wfState.totalSubTasks = N
       /\ (pc = "exited" /\ haltReason = "finished") => Len(after) > Len(expected)

\* C17 witness: a plan of MaxPlan sub-tasks, the last REFACTOR has ended and
\* INTEGRATE is running
C17_Witness ==
  /\ workflow = "production"
  /\ planHeadings = MaxPlan
  /\ pc = "running"
  /\ currentPhase = "INTEGRATE"
  /\ wfState.currentSubTask = MaxPlan
  /\ Cardinality({i \in 1..Len(wfState.history) : wfState.history[i].phase = "REFACTOR"})
       = MaxPlan

\* C18: in every reachable state, a loaded and repaired one and a recovered
\* one included, completedPhases has no duplicates and only valid phase names.
C18_CompletedPhasesDistinctValid ==
  LET c == wfState.completedPhases IN
  /\ \A i, j \in 1..Len(c) : c[i] = c[j] => i = j
  /\ \A i \in 1..Len(c) : HasPhase(c[i])

\* C19: in every scheduler state of a run that has not gone through the
\* innovation wrap, every phase in completedPhases has an index in the
\* ordered phase list that is <= the index of the current phase, also after
\* a gate has sent the workflow back and after REFACTOR -> TEST.
C19_CompletedNotAhead ==
  (/\ launch = "fresh"
   /\ pc \in {"loop", "running", "waiting"}
   /\ \A i \in 1..Len(wfState.history) : wfState.history[i].phase # "INNOVATE") =>
    \A i \in 1..Len(wfState.completedPhases) :
      IndexOf(getOrderedPhaseNames, wfState.completedPhases[i])
        <= IndexOf(getOrderedPhaseNames, currentPhase)

\* C20: a launch that reads the state file (--continue-session, or
\* auto-resume: no task, .cloudforge present) and finds it malformed (not
\* JSON, or the task missing or empty) falls back to recovery from artifacts,
\* and ends with the usage error and exit code 1 only if no task is inferred;
\* it never ends with a thrown error.
C20_MalformedFileRecovers ==
  (/\ env.mode = "launch"
   /\ pc # "launch"
   /\ Truthy(env.continueSession) \/ (~Truthy(env.task) /\ env.dir)
   /\ env.dir
   /\ env.file \in {"invalid", "invalid_task", "notask", "emptytask"}) =>
    IF inferTaskFromArtifacts(env) # Null
    THEN /\ pc = "loop"
         /\ launch = "recovered"
         /\ wfState = Recover(env, args).v
    ELSE /\ pc = "exited"
         /\ exitCode = 1
         /\ haltReason = "usage"

\* C21: recoverStateFromArtifacts, for every set of non-empty artifacts and
\* every ordered phase list, gives a state with iteration 0 whose phase is
\* the detected phase of largest index in the list and whose completedPhases
\* are exactly the phases before that index, in order (so the resume phase is
\* not among them); with no detected phase it gives the first phase and no
\* completed phases.
C21_RecoveryResumesAtLatest ==
  (call.fn = "recoverStateFromArtifacts" /\ call.done) =>
    LET names == call.orderedPhaseNames
        detected == {ARTIFACT_PHASE_MAP[f] : f \in call.files \ {"prd"}}
                      \cup (IF "prd" \in call.files THEN {"DISCOVER"} ELSE {})
        at == {i \in 1..Len(names) : names[i] \in detected}
        res == call.result
    IN /\ res.iteration = 0
       /\ IF at = {} THEN res.phase = names[1] /\ res.completedPhases = << >>
          ELSE \E i \in at :
                 /\ \A j \in at : j <= i
                 /\ res.phase = names[i]
                 /\ res.completedPhases = SubSeq(names, 1, i - 1)
                 /\ ~Includes(res.completedPhases, res.phase)

\* C21 witness: plan.md and domain.md found beside a prd directory, the list
\* ordered otherwise than production: recovery resumes at DOMAIN
C21_Witness ==
  /\ call.fn = "recoverStateFromArtifacts"
  /\ call.done
  /\ call.files = {"prd", "plan.md", "domain.md"}
  /\ call.orderedPhaseNames = << "PLAN", "REQUIREMENTS", "DISCOVER", "DOMAIN" >>
  /\ call.result.phase = "DOMAIN"
  /\ call.result.completedPhases = << "PLAN", "REQUIREMENTS", "DISCOVER" >>

\* C22: repairState is idempotent: repairing a repaired state changes
\* nothing, whatever fields of the loaded state were missing, wrongly typed,
\* negative or not finite, and whatever the ordered phase list (timestamps
\* are not modelled).
C22_RepairIdempotent ==
  (call.fn = "repairState" /\ call.done) => call.again = call.result

\* C22 witness: a state that repair did change, in its phase, its counters
\* and its completed phases
C22_Witness ==
  /\ call.fn = "repairState"
  /\ call.done
  /\ call.state.phase = "BOGUS"
  /\ call.state.iteration = Num(-1)
  /\ call.state.totalTokens = Tok(NotNum, Num(-5))
  /\ call.state.completedPhases = Arr(<< "BOGUS", "PLAN", "DISCOVER", "PLAN" >>)
  /\ call.result.phase = "DISCOVER"
  /\ call.result.iteration = Num(0)
  /\ call.result.completedPhases = Arr(<< "PLAN", "DISCOVER", "PLAN" >>)
  /\ call.again = call.result

\* C23: after repairState on the production phase list, for every input
\* state: phase is a valid phase name, iteration is a number >= 0,
\* maxIterations a number > 0, history, completedPhases and lastErrors are
\* arrays, currentSubTask, totalSubTasks and both token totals are numbers
\* >= 0, consecutiveRetries = 0 and lastErrors is empty.
C23_RepairedStateSound ==
  (call.fn = "repairState" /\ call.done /\ call.orderedPhaseNames = getOrderedPhaseNames) =>
    LET r == call.result
        NonNegative(x) == x.num /\ x.v >= 0
    IN /\ Includes(call.orderedPhaseNames, r.phase)
       /\ NonNegative(r.iteration)
       /\ r.maxIterations.num /\ r.maxIterations.v > 0
       /\ r.history.arr /\ r.completedPhases.arr /\ r.lastErrors.arr
       /\ NonNegative(r.currentSubTask)
       /\ NonNegative(r.totalSubTasks)
       /\ r.totalTokens.obj
       /\ NonNegative(r.totalTokens.input)
       /\ NonNegative(r.totalTokens.output)
       /\ r.consecutiveRetries = Num(0)
       /\ r.lastErrors = Arr(<< >>)

\* C24: once a child invocation of the run has returned a session id, the
\* state holds the id returned most recently (it never goes back to null),
\* and every invocation running after that, a repeat after a wait or a later
\* phase, was started with --resume carrying that id.
C24_SessionContinuity ==
  returned # Null =>
    /\ wfState.sessionId = returned
    /\ pc = "running" => resume = returned

\* C24 witness: a child that was resumed with the second session id returned
\* in the run, repeated after a rate-limit wait
C24_Witness ==
  /\ pc = "running"
  /\ returned = "s2"
  /\ resume = "s2"
  /\ rateLimitAttempt > 0
  /\ \E i \in 1..Len(wfState.history) : wfState.history[i].result = "NEEDS_RETRY"

\* C26: in every workflow definition parseWorkflowFile produces, every
\* transition target other than the terminal sentinel names a phase defined
\* in the same definition.
C26_TargetsDefined ==
  (call.fn = "parseWorkflowFile" /\ call.done) =>
    \A i \in 1..Len(call.result) :
      \A c \in DOMAIN call.result[i].transitions :
        LET target == call.result[i].transitions[c] IN
        Truthy(target) => \E j \in 1..Len(call.result) : call.result[j].name = target

\* C27: parseWorkflowFile over any sequence of lines: the phases are the
\* sources of the transition lines in order of first appearance; the target
\* under a label is that of the last line with that source and label, null
\* for END, absent without such a line; a phase is taskLoop when one of its
\* lines is starred; lines that are no transitions change nothing.
C27_ParseWorkflow ==
  (call.fn = "parseWorkflowFile" /\ call.done) =>
    LET L == call.lines
        R == call.result
        TL == {i \in 1..Len(L) : L[i].text = "transition"}
        First(p) == CHOOSE i \in TL : L[i].from = p /\ \A j \in TL : L[j].from = p => i <= j
        Lines(p, c) == {i \in TL : L[i].from = p /\ L[i].condition = c}
        Last(p, c) == CHOOSE i \in Lines(p, c) : \A j \in Lines(p, c) : j <= i
    IN /\ {R[k].name : k \in 1..Len(R)} = {L[i].from : i \in TL}
       /\ \A k, m \in 1..Len(R) : k < m => First(R[k].name) < First(R[m].name)
       /\ \A k \in 1..Len(R) :
            /\ R[k].taskLoop = (\E i \in TL : L[i].from = R[k].name /\ L[i].star)
            /\ \A c \in DOMAIN R[k].transitions :
                 R[k].transitions[c] =
                   IF Lines(R[k].name, c) = {} THEN Undefined
                   ELSE IF L[Last(R[k].name, c)].to = "END" THEN Null
                   ELSE L[Last(R[k].name, c)].to

\* C27 witness: A -> B [done], a line that is no transition, then
\* *A -> END [done]: one phase A, taskLoop, its done target overwritten by null
C27_Witness ==
  /\ call.fn = "parseWorkflowFile"
  /\ call.done
  /\ call.lines = << TransitionLine(FALSE, "A", "B", "done"), OtherLine("junk"),
                     TransitionLine(TRUE, "A", "END", "done") >>
  /\ call.result = << Phase("A", TRUE, T(Null, Undefined, Undefined, Undefined)) >>

\* C25: with a workflow file that yields zero phases the scheduler never
\* invokes the child and never reports a successful run.
C25_EmptyWorkflowRejected ==
  workflow = "empty" =>
    /\ spawned = 0
    /\ ~(pc = "exited" /\ haltReason = "finished" /\ exitCode = 0)

\* C28: detectRateLimit, for every exit code and every combination of
\* matches: with exit code # 0 a match in stderr or in stdout reports a rate
\* limit; with exit code 0 a match in stdout does and a match only in stderr
\* does not; with no match the result is isRateLimit = false, retryAfter = 0.
C28_RateLimitClassified ==
  (call.fn = "detectRateLimit" /\ call.done) =>
    LET inStderr == call.stderr.rateLimit
        inStdout == call.output.rateLimit
    IN /\ (call.exitCode # 0 /\ (inStderr \/ inStdout)) => call.result.isRateLimit
       /\ (call.exitCode = 0 /\ inStdout) => call.result.isRateLimit
       /\ (call.exitCode = 0 /\ inStderr /\ ~inStdout) => ~call.result.isRateLimit
       /\ (~inStderr /\ ~inStdout) =>
            call.result = [isRateLimit |-> FALSE, retryAfter |-> 0]
       /\ ~call.result.isRateLimit => call.result.retryAfter = 0

\* C28 witness: exit code 0 with a rate-limit message on stderr only, a
\* retry-after hint beside it: no rate limit is reported
C28_Witness ==
  /\ call.fn = "detectRateLimit"
  /\ call.done
  /\ call.exitCode = 0
  /\ call.stderr = Text(TRUE, FALSE, RetryAfterHint)
  /\ call.output = Quiet
  /\ call.result = [isRateLimit |-> FALSE, retryAfter |-> 0]

\* C29: the wait before repeating attempt a (0-based) is hint + 30 seconds
\* when a rate limit was detected and a retry-after hint > 0 extracted,
\* otherwise min(60 * 2^a, maxWait); a transient error always waits the
\* second form, so the waits without a hint are 60, 120, 240, 480, 960,
\* capped at maxWait.
C29_WaitBeforeRepeat ==
  (call.fn = "wait" /\ call.done) =>
    LET r == call.r
        a == call.attempt
        hint == IF r.stderr.retryAfter > 0 THEN r.stderr.retryAfter ELSE r.output.retryAfter
        rateLimited == \/ r.exitCode # 0 /\ (r.stderr.rateLimit \/ r.output.rateLimit)
                       \/ r.output.rateLimit
        doubling == << 60, 120, 240, 480, 960 >>
        backoff == IF doubling[a + 1] <= call.rateLimitWait
                   THEN doubling[a + 1] ELSE call.rateLimitWait
    IN call.result = IF rateLimited /\ hint > 0 THEN hint + 30 ELSE backoff

\* C29 witness: a transient error whose text carries a retry-after hint, on
\* the fourth attempt with a maximum wait of 100 seconds: the wait is 100
C29_Witness ==
  /\ call.fn = "wait"
  /\ call.done
  /\ call.r.stderr = Text(FALSE, TRUE, RetryAfterHint)
  /\ call.r.output.retryAfter = 0
  /\ ~call.r.output.rateLimit
  /\ call.attempt = 3
  /\ call.rateLimitWait = 100
  /\ call.result = 100

C32_StatusParser ==
  (call.fn = "parseCloudForgeStatus" /\ call.done) =>
    LET lines == call.lines
        n == Len(lines)
        sentinels == { i \in 1..n : lines[i].kind = "sentinel" }
        first == CHOOSE i \in sentinels : \A j \in sentinels : i <= j
        after == { j \in (first + 1)..n : lines[j].kind # "blank" }
        start == IF after = {} THEN n + 1 ELSE CHOOSE j \in after : \A k \in after : j <= k
        inBlock == { j \in start..n : \A k \in start..j : lines[k].kind # "blank" }
        valued(key) == { j \in inBlock : /\ lines[j].kind = "field"
                                          /\ toLowerCase(lines[j].key) = key
                                          /\ lines[j].value # "" }
        last(key) == IF valued(key) = {} THEN Undefined
                     ELSE Trim(lines[CHOOSE j \in valued(key) : \A k \in valued(key) : k <= j].value)
        tasks == IF last("tasks_remaining") # Undefined THEN last("tasks_remaining")
                 ELSE last("tasksremaining")
    IN IF sentinels = {} THEN ~call.result.present
       ELSE /\ call.result.present
            /\ call.result.result = IF last("result") = Undefined THEN "DONE"
                                    ELSE toUpperCase(last("result"))
            /\ call.result.tasksRemaining = IF tasks = "5" THEN Num(5) ELSE NotNum
            /\ call.again = call.result

\* C33: every recordIteration call increases iteration by 1, appends one
\* history entry that carries the new counter (result UNKNOWN for a null
\* status) and adds the token counts to the totals, null tokens as zero; so on
\* a created state the history is as long as the number of calls, its
\* iteration numbers increase strictly and the totals never decrease.
C33_RecordIteration ==
  /\ [](call.fn = "ops" =>
         /\ Len(wfState.history) = call.records
         /\ wfState.iteration = call.records
         /\ \A i \in 1..Len(wfState.history) :
              \A j \in 1..Len(wfState.history) :
                i < j => wfState.history[i].iteration < wfState.history[j].iteration)
  /\ [][call.fn = "ops" =>
          /\ wfState'.totalTokens.input >= wfState.totalTokens.input
          /\ wfState'.totalTokens.output >= wfState.totalTokens.output
          /\ call'.records = call.records + 1 =>
               LET n == Len(wfState'.history)
                   t == call'.tokens
               IN /\ wfState'.iteration = wfState.iteration + 1
                  /\ n = Len(wfState.history) + 1
                  /\ SubSeq(wfState'.history, 1, n - 1) = wfState.history
                  /\ wfState'.history[n].iteration = wfState'.iteration
                  /\ ~call'.status.present => wfState'.history[n].result = "UNKNOWN"
                  /\ call'.status.present =>
                       wfState'.history[n].result = call'.status.result
                  /\ wfState'.totalTokens.input =
                       wfState.totalTokens.input + (IF t.given THEN t.input ELSE 0)
                  /\ wfState'.totalTokens.output =
                       wfState.totalTokens.output + (IF t.given THEN t.output ELSE 0)]_vars

\* C33 witness: MaxRecords calls were made, the last with null tokens and a
\* null status, after calls that carried tokens
C33_Witness ==
  /\ call.fn = "ops"
  /\ call.records = MaxRecords
  /\ call.op = "recordIteration"
  /\ ~call.tokens.given
  /\ ~call.status.present
  /\ wfState.totalTokens.input > 0
  /\ wfState.history[MaxRecords].result = "UNKNOWN"

\* C34: after any sequence of trackRetry calls lastErrors holds at most 5
\* entries; a supplied message is appended at the end, the oldest entry being
\* dropped when there would be more than 5; consecutiveRetries is increased
\* when the most recent history entry is NEEDS_RETRY and set to 0 otherwise.
C34_TrackRetry ==
  /\ [](call.fn = "ops" => Len(wfState.lastErrors) <= 5)
  /\ [][(call.fn = "ops" /\ call'.tracks = call.tracks + 1) =>
          LET old == wfState.lastErrors
              new == wfState'.lastErrors
              h == wfState.history
              msg == call'.errorMsg
          IN /\ msg = "" => new = old
             /\ (msg # "" /\ Len(old) < 5) => new = Append(old, msg)
             /\ (msg # "" /\ Len(old) = 5) => new = Append(Tail(old), msg)
             /\ wfState'.consecutiveRetries =
                  IF Len(h) > 0 /\ h[Len(h)].result = "NEEDS_RETRY"
                  THEN wfState.consecutiveRetries + 1 ELSE 0]_vars

\* C34 witness: a sixth message has pushed the first one out
C34_Witness ==
  /\ call.fn = "ops"
  /\ call.tracks = MaxTracks
  /\ call.op = "trackRetry"
  /\ wfState.lastErrors = << "e2", "e1", "e1", "e1", "e2" >>
  /\ wfState.consecutiveRetries = MaxTracks

\* C35: an iteration of PLAN that ends DONE sets totalSubTasks to the number
\* of sub-task headings of plan.md, or to 1 when the file is missing or has
\* none, and currentSubTask to 0; any other step taken in PLAN leaves both
\* unchanged.
C35_PlanSetsSubTasks ==
  [][currentPhase = "PLAN" =>
      LET n == Len(wfState'.history) IN
      IF /\ wfState'.iteration = wfState.iteration + 1
         /\ wfState'.history[n].result = "DONE"
      THEN /\ wfState'.totalSubTasks >= 1
           /\ wfState'.totalSubTasks = IF planHeadings' >= 1 THEN planHeadings' ELSE 1
           /\ wfState'.currentSubTask = 0
      ELSE /\ wfState'.totalSubTasks = wfState.totalSubTasks
           /\ wfState'.currentSubTask = wfState.currentSubTask]_vars

\* C35 witness: PLAN ended DONE on a plan.md without sub-task headings, in a
\* run resumed with two sub-tasks of two done
C35_Witness ==
  /\ Len(wfState.history) > 0
  /\ wfState.history[Len(wfState.history)].phase = "PLAN"
  /\ wfState.history[Len(wfState.history)].result = "DONE"
  /\ planHeadings = 0
  /\ wfState.totalSubTasks = 1
  /\ wfState.currentSubTask = 0
  /\ startIteration = 0
  /\ launch = "loaded"

\* C36: in a workflow none of whose phases has a done or done_next_subtask
\* transition to itself, lastErrors never holds more entries than
\* consecutiveRetries counts when the circuit breaker is checked, from a fresh,
\* recovered or repaired state; so whenever lastErrors holds three entries the
\* consecutive-retries check already halts, and no run halts with the
\* repeated-errors reason.
C36_ErrorsWithinRetries ==
  (\A p \in {getOrderedPhaseNames[i] : i \in 1..Len(getOrderedPhaseNames)} :
      /\ getPhaseConfig(p).transitions.done # p
      /\ getPhaseConfig(p).transitions.done_next_subtask # p)
  => /\ pc = "loop" =>
          /\ Len(wfState.lastErrors) <= wfState.consecutiveRetries
          /\ Len(wfState.lastErrors) >= ErrorThreshold
               => checkConsecutiveRetries(wfState) # Null
          /\ checkCircuitBreaker(wfState) # "repeated_errors"
     /\ haltReason # "repeated_errors"

\* C36 witness: the breaker is checked with three identical errors kept, and
\* three consecutive retries counted
C36_Witness ==
  /\ pc = "loop"
  /\ wfState.lastErrors = << "e1", "e1", "e1" >>
  /\ wfState.consecutiveRetries = 3
  /\ checkRepeatedErrors(wfState) = "repeated_errors"
  /\ checkMaxIterations(wfState) = Null

\* C37: after a halt for iteration >= maxIterations, a later launch that loads
\* the saved state, by auto-resume or --continue-session and whatever
\* --max-iterations it is given, keeps the stored iteration and maxIterations
\* and halts again at the first circuit-breaker check, with the max-iterations
\* reason and without invoking the child.
C37_HaltsAgainAfterCap ==
  /\ [][(pc = "exited" /\ haltReason = "max_iterations" /\ pc' = "loop") =>
          /\ wfState'.iteration = disk.state.iteration
          /\ wfState'.maxIterations = disk.state.maxIterations]_vars
  /\ [][(/\ pc = "loop"
          /\ env.mode = "relaunched"
          /\ env.after = "max_iterations"
          /\ spawned = 0) =>
          /\ pc' = "exited"
          /\ haltReason' = "max_iterations"
          /\ exitCode' = 1
          /\ spawned' = 0]_vars

\* C38: an iteration whose parsed result is none of DONE, BLOCKED and
\* NEEDS_RETRY is recorded, sets phaseRetryCount to 0, increases neither
\* consecutiveRetries nor lastErrors, adds nothing to completedPhases and
\* takes the retry transition; while a child has answered nothing else, in a
\* phase whose retry target is the phase itself, no retry breaker and no
\* retry_exhausted transition applies: the child is invoked again until the
\* iteration cap halts the run.
C38_OtherResultRetries ==
  /\ [][LET Known == {"DONE", "BLOCKED", "NEEDS_RETRY"}
            n == Len(wfState'.history)
        IN (/\ wfState'.iteration = wfState.iteration + 1
            /\ wfState'.history[n].result \notin Known) =>
             /\ wfState'.history[n].phase = currentPhase
             /\ n = Len(wfState.history) + 1
             /\ disk'.state.iteration = wfState.iteration + 1
             /\ phaseRetryCount' = 0
             /\ wfState'.consecutiveRetries <= wfState.consecutiveRetries
             /\ Len(wfState'.lastErrors) <= Len(wfState.lastErrors)
             /\ wfState'.completedPhases = wfState.completedPhases
             /\ pc' = "loop"
             /\ currentPhase' = getPhaseConfig(currentPhase).transitions.retry]_vars
  /\ [](LET Known == {"DONE", "BLOCKED", "NEEDS_RETRY"}
            h == wfState.history
        IN (/\ Len(h) > 0
            /\ \A i \in 1..Len(h) : h[i].result \notin Known /\ h[i].phase = currentPhase
            /\ getPhaseConfig(currentPhase).transitions.retry = currentPhase) =>
             /\ pc = "loop" =>
                  /\ checkCircuitBreaker(wfState) \in {Null, "max_iterations"}
                  /\ phaseRetryCount = 0
             /\ pc = "exited" =>
                  /\ haltReason \in {"max_iterations", "sigint", "forced"}
                  /\ haltReason = "max_iterations" =>
                       /\ wfState.iteration >= wfState.maxIterations
                       /\ spawned = Len(h))

\* C38 witness: a fresh run whose child answered FAILED in DISCOVER five
\* times, halted by the iteration cap
C38_Witness ==
  /\ pc = "exited"
  /\ haltReason = "max_iterations"
  /\ launch = "fresh"
  /\ Len(wfState.history) = MaxRemaining
  /\ \A i \in 1..Len(wfState.history) :
       wfState.history[i].result = "FAILED" /\ wfState.history[i].phase = "DISCOVER"
  /\ wfState.consecutiveRetries = 0
  /\ wfState.completedPhases = << >>

\* C39: the state saved at the end of an iteration, and the one saved at a
\* clean finish, hold the phase just executed; the stored phase after a clean
\* finish is the final phase, and a later launch without arguments resumes
\* there and invokes the child for that phase again when iteration <
\* maxIterations.
C39_SavedPhaseIsExecuted ==
  /\ [][wfState'.iteration = wfState.iteration + 1 =>
          /\ disk'.state.phase = currentPhase
          /\ disk'.state.iteration = wfState.iteration + 1]_vars
  /\ [][(pc = "running" /\ pc' = "exited" /\ haltReason' = "finished") =>
          /\ disk' = saveState(wfState')
          /\ wfState'.phase = currentPhase
          /\ OrNull(getPhaseConfig(currentPhase).transitions.done) = Null]_vars
  /\ [][(pc = "exited" /\ haltReason = "finished" /\ pc' = "loop") =>
          /\ currentPhase' = currentPhase
          /\ wfState'.phase = currentPhase
          /\ wfState'.iteration = wfState.iteration]_vars
  /\ [][(/\ pc = "loop"
          /\ env.mode = "relaunched"
          /\ env.after = "finished"
          /\ ~env.continueSession
          /\ spawned = 0
          /\ wfState.iteration < wfState.maxIterations) =>
          /\ pc' = "running"
          /\ spawned' = 1
          /\ currentPhase' = currentPhase
          /\ OrNull(getPhaseConfig(currentPhase).transitions.done) = Null]_vars

\* C39 witness: after a clean finish, a launch without arguments has the child
\* running for INNOVATE again
C39_Witness ==
  /\ env.mode = "relaunched"
  /\ env.after = "finished"
  /\ ~env.continueSession
  /\ pc = "running"
  /\ spawned = 1
  /\ currentPhase = "INNOVATE"
  /\ Includes(wfState.completedPhases, "INNOVATE")
  /\ wfState.history[Len(wfState.history)].phase = "INNOVATE"

\* C40: every attempt classified as rate-limited or transient, the fifth
\* included, goes into a countdown wait, and the attempt counter is increased
\* only when that wait is over; a phase execution that halts with the
\* attempts-exhausted reason has made exactly 5 invocations and 5 waits, no
\* invocation following the last wait; no run halts with the wait-exceeded
\* reason.
C40_WaitThenCount ==
  /\ [][(pc = "running" /\ pc' # "running" /\ wfState'.iteration = wfState.iteration
          /\ haltReason' \notin {"agent_failed", "sigint", "forced"}) =>
          /\ pc' = "waiting"
          /\ waitTime' > 0
          /\ rateLimitAttempt' = rateLimitAttempt
          /\ rateLimitAttempt < maxRateLimitAttempts
          /\ spawned' = spawned]_vars
  /\ [][rateLimitAttempt' > rateLimitAttempt =>
          /\ pc = "waiting"
          /\ waitTime > 0
          /\ waitTime' = 0
          /\ rateLimitAttempt' = rateLimitAttempt + 1
          /\ IF rateLimitAttempt' = maxRateLimitAttempts
             THEN /\ pc' = "exited"
                  /\ haltReason' = "attempts_exhausted"
                  /\ exitCode' = 1
                  /\ spawned' = spawned
             ELSE pc' = "running" /\ spawned' = spawned + 1]_vars
  /\ [](pc = "exited" /\ haltReason = "attempts_exhausted" =>
          /\ phaseSpawns = maxRateLimitAttempts
          /\ rateLimitAttempt = maxRateLimitAttempts
          /\ throttled >= maxRateLimitAttempts)
  /\ [](haltReason # "wait_exceeded")

\* C40 witness: the attempts-exhausted halt of a run given a maximum wait below
\* the retry-after hint of its rate-limited child
C40_Witness ==
  /\ pc = "exited"
  /\ haltReason = "attempts_exhausted"
  /\ phaseSpawns = 5
  /\ rateLimitAttempt = 5
  /\ throttled = 5
  /\ args.rateLimitWait < RetryAfterHint

====
